---- MODULE Spec2Model ----
(***************************************************************************)
(* Climaview: a Streamlit weather dashboard.                               *)
(*                                                                         *)
(* The module models independent parts of the repository, each under its   *)
(* own specification over the same variables:                              *)
(*   Spec          the Global Weather tab of app.py with the cached        *)
(*                 get_current_weather of weather_api.py                   *)
(*   SpecHistory   the same tab, for a session that searches more cities   *)
(*                 than search_history keeps                               *)
(*   SpecDb        store_weather_data and initialize_db of database.py     *)
(*   SpecQuery     the queries of database.py                              *)
(*   SpecRace      two concurrent callers of store_weather_data            *)
(*   SpecGeo       the cached get_city_coordinates of weather_api.py       *)
(*   SpecForecast  the county forecast of ml_forecast.py                   *)
(*   SpecModels    two sessions sharing the models of ml_forecast.py       *)
(*   SpecBike      the bicycle CSV loader of Cycle_Stats.py                *)
(*   SpecTab       the time-period filter of bicycle_analysis.py           *)
(*   SpecMerge     the bicycle/weather merge of Cycle_Stats.py             *)
(*   SpecCsv       the county CSV of utils.py: its date column, its        *)
(*                 loading and its regeneration                            *)
(*                                                                         *)
(* Time is counted in seconds.  A timestamp string 'YYYY-MM-DD HH:MM:SS'   *)
(* is modelled by the number of seconds it denotes: two strings of that    *)
(* format compare as TEXT exactly as the instants they denote.             *)
(***************************************************************************)
EXTENDS Integers, Sequences, FiniteSets, TLC

VARIABLES
    now,             \* the instant, seconds (UTC)
    tz,              \* UTC offset of the host's local time, seconds
    \* ---- database.py: the file weather_data.db
    dbFile,          \* the file exists
    dbTable,         \* the table weather_data exists
    rows,            \* the rows of weather_data, in insertion order
    dbOp,            \* the last database call and what it returned
    \* ---- app.py: st.session_state and what the last script run rendered
    city,
    last_search,
    search_history,
    shown,
    run,             \* which button started the last run, and the history before it
    succeeded,       \* the cities a search of which returned cod 200
    \* ---- weather_api.py: the st.cache_data store of get_current_weather
    cache,
    lastReq,         \* per city, the last HTTP request issued and its result
    lastCall,        \* per city, the last call of get_current_weather
    \* ---- weather_api.py: get_city_coordinates and its st.cache_data store
    geoCache,
    geoCall,         \* the last call of get_city_coordinates and how it ended
    \* ---- database.py: two store_weather_data calls running at once
    storeCall,       \* per caller, where its call stands and what it holds
    dbLock,          \* the caller whose connection holds the write lock, or 0
    \* ---- ml_forecast.py: the models of load_forecast_models, two sessions
    fcModels,        \* the cached model objects: what they were last fitted on
    fcRun,           \* per session, where its predict_county_weather call stands
    \* ---- bicycle_analysis.py: the filters of the bicycle tab
    tabHours,        \* the Hour values of the records in bicycle_data
    tabPeriod,       \* the entry selected in "Select Time Period"
    tabKept,         \* the Hour values of filtered_data
    \* ---- Cycle_Stats.py: preprocess_data_for_analysis
    bicycle_df,      \* the bicycle records: Date and Count
    weather_csv,     \* Dublin's readings in the weather CSV: date and temp
    merged_data,     \* what preprocess_data_for_analysis returned last
    \* ---- ml_forecast.py / ireland_forecast.py: the county forecast page
    fcCounty,        \* the county selected
    fcHasRhum,       \* the CSV has an rhum column
    fcDays,          \* distinct days of readings the CSV holds for the county
    fcCall,          \* the forecast request of this run and its outcome
    \* ---- Cycle_Stats.py: the three yearly bicycle CSV files and their load
    bikeColumns,     \* per year, the header of the file after its Time column
    bikeIntervals,   \* per year, the number of rows (time intervals) of the file
    bikeData,        \* what load_bicycle_data returned in this run
    \* ---- utils.py: the date column of counties_with_data_2015_2022.csv
    csvStamp,        \* the timestamp generate_sample_ireland_data wrote last
    csvDate,         \* the text of its date cell in the file
    csvParsed,       \* what load_ireland_weather_data parsed from the cell
    csvCounties,     \* the counties the file has rows for
    csvDraw,         \* the random draws behind the temp and rain cells of the file
    csvLoad          \* what the last load_ireland_weather_data call returned

timeVars == <<now, tz>>
dbVars   == <<dbFile, dbTable, rows, dbOp>>
appVars  == <<city, last_search, search_history, shown, run, succeeded>>
apiVars  == <<cache, lastReq, lastCall>>
fcVars   == <<fcCounty, fcHasRhum, fcDays, fcCall>>
bikeVars == <<bikeColumns, bikeIntervals, bikeData>>
csvVars  == <<csvStamp, csvDate, csvParsed, csvCounties, csvDraw, csvLoad>>
geoVars  == <<geoCache, geoCall>>
raceVars == <<storeCall, dbLock>>
modelVars == <<fcModels, fcRun>>
tabVars  == <<tabHours, tabPeriod, tabKept>>
mergeVars == <<bicycle_df, weather_csv, merged_data>>
vars     == <<timeVars, dbVars, appVars, apiVars, fcVars, bikeVars, csvVars, geoVars,
              raceVars, modelVars, tabVars, mergeVars>>

\* What the actions of one part leave alone.
NotDb   == <<appVars, apiVars, fcVars, bikeVars, csvVars, geoVars, raceVars,
            modelVars, tabVars, mergeVars>>
NotApp  == <<dbVars, fcVars, bikeVars, csvVars, geoVars, raceVars,
            modelVars, tabVars, mergeVars>>
NotFc   == <<timeVars, dbVars, appVars, apiVars, bikeVars, csvVars, geoVars, raceVars,
            modelVars, tabVars, mergeVars>>
NotBike == <<timeVars, dbVars, appVars, apiVars, fcVars, csvVars, geoVars, raceVars,
            modelVars, tabVars, mergeVars>>
NotCsv  == <<timeVars, dbVars, appVars, apiVars, fcVars, bikeVars, geoVars, raceVars,
            modelVars, tabVars, mergeVars>>
NotGeo  == <<dbVars, appVars, apiVars, fcVars, bikeVars, csvVars, raceVars,
            modelVars, tabVars, mergeVars>>
NotRace == <<appVars, apiVars, fcVars, bikeVars, csvVars, geoVars, modelVars,
             tabVars, mergeVars>>
NotModels == <<timeVars, dbVars, appVars, apiVars, fcVars, bikeVars, csvVars, geoVars,
               raceVars, tabVars, mergeVars>>
NotTab   == <<timeVars, dbVars, appVars, apiVars, fcVars, bikeVars, csvVars, geoVars,
              raceVars, modelVars, mergeVars>>
NotMerge == <<timeVars, dbVars, appVars, apiVars, fcVars, bikeVars, csvVars, geoVars,
              raceVars, modelVars, tabVars>>

(***************************************************************************)
(* Bounds of the model.                                                    *)
(***************************************************************************)
Cities     == {"Dublin", "Cork"}
TzOffsets  == {-3600, 0, 3600}
DbStep     == 1800      \* seconds one DbTick advances the clock
DbMaxTicks == 5
MaxRows    == 3
MaxDays    == 12        \* days of readings a county's history grows to
MaxForecastDays == 6    \* forecast_days requested: 1..6 (one past the limit)
MaxIntervals == 2       \* rows of a bicycle CSV file
AppStep    == 300       \* seconds one Tick advances the clock
AppMaxTicks == 2
GeoStep    == 1800      \* seconds one GeoTick advances the clock
GeoMaxTicks == 3

Max(a, b) == IF a >= b THEN a ELSE b
Min(a, b) == IF a <= b THEN a ELSE b

(***************************************************************************)
(* database.py                                                             *)
(***************************************************************************)
HourSeconds == 3600

\* utils.format_weather_data: 'timestamp' is datetime.now() of the host,
\* that is local wall-clock time, formatted '%Y-%m-%d %H:%M:%S'.
format_weather_data(c) ==
    [city |-> c, timestamp |-> now + tz]

\* SELECT * FROM weather_data WHERE city = ? AND
\*   timestamp > datetime('now', '-1 hour')      -- datetime('now') is UTC
existing_data(c) ==
    \E i \in 1..Len(rows) :
        /\ rows[i].city = c
        /\ rows[i].timestamp > now - HourSeconds

\* A datetime argument: whole seconds and the microsecond field.
Instant(s, u) == [sec |-> s, us |-> u]

\* The ranges get_historical_data is asked for: ends on and off a stored
\* timestamp, with and without microseconds (datetime.now() carries them).
StartDates == {Instant(3600, 0), Instant(3600, 500000)}
EndDates   == {Instant(3600, 0), Instant(7200, 500000)}

NoDbOp == [op |-> "none", city |-> "", at |-> 0, ret |-> FALSE, tableBefore |-> FALSE,
           fileBefore |-> FALSE,
           raised |-> FALSE, rowsBefore |-> <<>>, result |-> <<>>, fault |-> "none",
           start |-> Instant(0, 0), end |-> Instant(0, 0)]

\* What a try block leaves behind: whether an exception left it, what it
\* returned (ret for a bool, result for a table or a list) and the rows of
\* the table once the connection is gone.
Returned(b, r, rs) == [raised |-> FALSE, ret |-> b, result |-> r, rows |-> rs]
Raised(rs) == [raised |-> TRUE, ret |-> FALSE, result |-> <<>>, rows |-> rs]

\* Mutant: no except clause, the exception leaves the function.
NoExcept(body, value) == body

\* try: body / except Exception as e: print(...); return value
Except(body, value) ==
    IF body.raised THEN [value EXCEPT !.rows = body.rows] ELSE body

\* Mutant: the INSERT is durable without conn.commit().
CommitAlways(before, pending, ok) == pending

\* conn.commit(): the pending INSERT becomes durable; a connection dropped
\* before a successful commit rolls it back.
Commit(before, pending, ok) == IF ok THEN pending ELSE before

\* What can go wrong inside a database call besides a missing table.
StoreFaults == {"none", "data", "commit"}
HistoricalFaults == {"none", "args"}
CitiesFaults == {"none", "db"}

\* Mutant: the file is looked for after sqlite3.connect has created it.
db_exists_after_connect(file) == TRUE

\* db_exists = os.path.exists(db_path), taken before sqlite3.connect
db_exists(file) == file

\* initialize_db(): CREATE TABLE IF NOT EXISTS; return not db_exists.
initialize_db ==
    /\ dbFile' = TRUE
    /\ dbTable' = TRUE
    /\ rows' = rows
    /\ dbOp' = [NoDbOp EXCEPT !.op = "init", !.at = now, !.ret = ~db_exists(dbFile),
                              !.tableBefore = dbTable, !.fileBefore = dbFile,
                              !.rowsBefore = rows]
    /\ UNCHANGED <<timeVars, NotDb>>

\* The try block of store_weather_data.  fault "data": weather_data lacks a
\* key, the SELECT's parameter tuple raises KeyError; without the table the
\* SELECT raises OperationalError; fault "commit": conn.commit() raises.
StoreBody(weather_data, fault) ==
    IF fault = "data" \/ ~dbTable THEN Raised(rows)
    ELSE IF ~existing_data(weather_data.city)
            THEN LET pending == Append(rows,
                                   [id |-> Len(rows) + 1,
                                    city |-> weather_data.city,
                                    timestamp |-> weather_data.timestamp,
                                    at |-> now])
                     stored == Commit(rows, pending, fault # "commit")
                 IN  IF fault = "commit" THEN Raised(stored)
                     ELSE Returned(TRUE, <<>>, stored)
            ELSE Returned(FALSE, <<>>, rows)

\* store_weather_data(format_weather_data(response for c)).
\* sqlite3.connect creates the file.
store_weather_data(c, fault) ==
    LET out == Except(StoreBody(format_weather_data(c), fault),
                      Returned(FALSE, <<>>, rows)) IN
    /\ Len(rows) < MaxRows
    /\ dbFile' = TRUE
    /\ dbTable' = dbTable
    /\ rows' = out.rows
    /\ dbOp' = [NoDbOp EXCEPT !.op = "store", !.city = c, !.at = now, !.fault = fault,
                              !.ret = out.ret, !.raised = out.raised,
                              !.tableBefore = dbTable, !.fileBefore = dbFile,
                              !.rowsBefore = rows]
    /\ UNCHANGED <<timeVars, NotDb>>

\* start_date.strftime('%Y-%m-%d %H:%M:%S'): the text carries whole seconds,
\* the microsecond field of the datetime is left out.  Texts of this one
\* fixed-width format compare as their instants do, so a text is modelled
\* by its count of seconds.
sql_timestamp(d) == d.sec

\* Mutant: the upper end of the range is excluded.
BetweenExclusive(t, lo, hi) == lo <= t /\ t < hi

\* timestamp BETWEEN ? AND ?
Between(t, lo, hi) == lo <= t /\ t <= hi

RECURSIVE InsertByTimestamp(_, _)
InsertByTimestamp(sorted, r) ==
    IF sorted = <<>> THEN <<r>>
    ELSE IF Head(sorted).timestamp <= r.timestamp
            THEN <<Head(sorted)>> \o InsertByTimestamp(Tail(sorted), r)
            ELSE <<r>> \o sorted

\* ORDER BY timestamp ASC
RECURSIVE OrderByTimestamp(_)
OrderByTimestamp(rs) ==
    IF rs = <<>> THEN <<>>
    ELSE InsertByTimestamp(OrderByTimestamp(SubSeq(rs, 1, Len(rs) - 1)), rs[Len(rs)])

\* The try block of get_historical_data.  fault "args": start_date or
\* end_date has no strftime (not a datetime), AttributeError; without the
\* table pd.read_sql_query raises.
HistoricalBody(c, start_date, end_date, fault) ==
    IF fault # "none" \/ ~dbTable THEN Raised(rows)
    ELSE LET lo == sql_timestamp(start_date)
             hi == sql_timestamp(end_date)
             Selected(r) == r.city = c /\ Between(r.timestamp, lo, hi)
         IN  Returned(FALSE, OrderByTimestamp(SelectSeq(rows, Selected)), rows)

\* get_historical_data(city, start_date, end_date)
get_historical_data(c, start_date, end_date, fault) ==
    LET out == Except(HistoricalBody(c, start_date, end_date, fault),
                      Returned(FALSE, <<>>, rows)) IN
    /\ dbFile' = TRUE
    /\ dbTable' = dbTable
    /\ rows' = out.rows
    /\ dbOp' = [NoDbOp EXCEPT !.op = "historical", !.city = c, !.at = now, !.fault = fault,
                              !.raised = out.raised, !.result = out.result,
                              !.tableBefore = dbTable, !.fileBefore = dbFile,
                              !.rowsBefore = rows,
                              !.start = start_date, !.end = end_date]
    /\ UNCHANGED <<timeVars, NotDb>>

\* The order SQLite's BINARY collation gives the city names of the model.
CityRank(c) == IF c = "Cork" THEN 1 ELSE 2

RECURSIVE OrderByCity(_)
\* SELECT DISTINCT city ... ORDER BY city ASC, over the set of cities stored
OrderByCity(cs) ==
    IF cs = {} THEN <<>>
    ELSE LET first == CHOOSE c \in cs : \A d \in cs : CityRank(c) <= CityRank(d)
         IN  <<first>> \o OrderByCity(cs \ {first})

\* The try block of get_cities_with_data.  fault "db": the file cannot be
\* read as a database; without the table the SELECT raises.
CitiesBody(fault) ==
    IF fault # "none" \/ ~dbTable THEN Raised(rows)
    ELSE Returned(FALSE, OrderByCity({rows[i].city : i \in 1..Len(rows)}), rows)

\* get_cities_with_data()
get_cities_with_data(fault) ==
    LET out == Except(CitiesBody(fault), Returned(FALSE, <<>>, rows)) IN
    /\ dbFile' = TRUE
    /\ dbTable' = dbTable
    /\ rows' = out.rows
    /\ dbOp' = [NoDbOp EXCEPT !.op = "cities", !.at = now, !.fault = fault,
                              !.raised = out.raised, !.result = out.result,
                              !.tableBefore = dbTable, !.fileBefore = dbFile,
                              !.rowsBefore = rows]
    /\ UNCHANGED <<timeVars, NotDb>>

DbTick ==
    /\ now + DbStep <= DbStep * DbMaxTicks
    /\ now' = now + DbStep
    /\ UNCHANGED <<tz, dbVars, NotDb>>

(***************************************************************************)
(* database.py: store_weather_data statement by statement, two callers     *)
(*                                                                         *)
(* Each call opens its own connection.  The SELECT runs outside any        *)
(* transaction; the INSERT opens one and takes SQLite's write lock, which  *)
(* conn.commit() releases.  A second writer waits for the lock and gets    *)
(* OperationalError ('database is locked') when the wait times out.        *)
(***************************************************************************)
Callers == {1, 2}

Other(p) == IF p = 1 THEN 2 ELSE 1

NoStoreCall == [pc |-> "idle", city |-> "", timestamp |-> 0, overlap |-> FALSE,
                clean |-> FALSE, ret |-> FALSE]

Running(p) == storeCall[p].pc \in {"select", "insert", "commit"}

\* store_weather_data(format_weather_data(response for c)) is entered.
StoreEnter(p, c) ==
    /\ ~Running(p)
    /\ dbTable
    /\ Len(rows) < MaxRows
    /\ storeCall' =
         [q \in Callers |->
            IF q = p
               THEN [pc |-> "select", city |-> c,
                     timestamp |-> format_weather_data(c).timestamp,
                     overlap |-> Running(Other(p)),
                     clean |-> ~existing_data(c), ret |-> FALSE]
               ELSE [storeCall[q] EXCEPT !.overlap = Running(q)]]
    /\ UNCHANGED <<dbLock, timeVars, dbVars, NotRace>>

\* cursor.execute(SELECT ...); existing_data = cursor.fetchone():
\* with a recent row the call closes and returns False.
StoreSelect(p) ==
    /\ storeCall[p].pc = "select"
    /\ storeCall' = [storeCall EXCEPT ![p].pc =
                        IF existing_data(storeCall[p].city) THEN "done" ELSE "insert"]
    /\ UNCHANGED <<dbLock, timeVars, dbVars, NotRace>>

\* cursor.execute(INSERT ...) with the write lock free.
StoreInsert(p) ==
    /\ storeCall[p].pc = "insert"
    /\ dbLock = 0
    /\ dbLock' = p
    /\ storeCall' = [storeCall EXCEPT ![p].pc = "commit"]
    /\ UNCHANGED <<timeVars, dbVars, NotRace>>

\* cursor.execute(INSERT ...) while the other connection holds the write
\* lock and the wait times out: OperationalError, except, return False.
StoreLocked(p) ==
    /\ storeCall[p].pc = "insert"
    /\ dbLock = Other(p)
    /\ storeCall' = [storeCall EXCEPT ![p].pc = "done"]
    /\ UNCHANGED <<dbLock, timeVars, dbVars, NotRace>>

\* conn.commit(); conn.close(); return True
StoreCommit(p) ==
    /\ storeCall[p].pc = "commit"
    /\ rows' = Append(rows, [id |-> Len(rows) + 1, city |-> storeCall[p].city,
                             timestamp |-> storeCall[p].timestamp, at |-> now])
    /\ dbLock' = 0
    /\ storeCall' = [storeCall EXCEPT ![p].pc = "done", ![p].ret = TRUE]
    /\ UNCHANGED <<dbFile, dbTable, dbOp, timeVars, NotRace>>

(***************************************************************************)
(* weather_api.py: get_current_weather under @st.cache_data(ttl=600)       *)
(***************************************************************************)
CacheTtl == 600

\* What get_current_weather can return: response.json() of the provider
\* (cod 200, an error payload with another cod, a payload without cod) or
\* None after a requests.exceptions.RequestException.
Ok200   == [json |-> TRUE,  hasCod |-> TRUE,  cod |-> 200]
Err404  == [json |-> TRUE,  hasCod |-> TRUE,  cod |-> 404]
NoCod   == [json |-> TRUE,  hasCod |-> FALSE, cod |-> 0]
NoneVal == [json |-> FALSE, hasCod |-> FALSE, cod |-> 0]
Responses == {Ok200, Err404, NoCod, NoneVal}

NoEntry == [present |-> FALSE, value |-> NoneVal, created |-> 0]
NoReq   == [some |-> FALSE, at |-> 0, value |-> NoneVal]
NoCall  == [some |-> FALSE, at |-> 0, value |-> NoneVal]

\* Mutant: the entry is still served at the instant it expires.
CacheHitInclusive(entry, t) ==
    entry.present /\ t <= entry.created + CacheTtl

\* The cache entry of an argument is served while it is younger than ttl.
CacheHit(entry, t) ==
    entry.present /\ t < entry.created + CacheTtl

\* One call get_current_weather(c) at instant t on the api state
\* a = [cache, lastReq, lastCall]; resp is what the provider answers if the
\* function body runs (requests.get is reached only on a cache miss).  The
\* result carries the new api state and the returned value.
get_current_weather(a, c, t, resp) ==
    LET hit   == CacheHit(a.cache[c], t)
        value == IF hit THEN a.cache[c].value ELSE resp
        call  == [some |-> TRUE, at |-> t, value |-> value]
    IN  [value    |-> value,
         cache    |-> IF hit THEN a.cache
                      ELSE [a.cache EXCEPT ![c] =
                               [present |-> TRUE, value |-> resp, created |-> t]],
         lastReq  |-> IF hit THEN a.lastReq
                      ELSE [a.lastReq EXCEPT ![c] =
                               [some |-> TRUE, at |-> t, value |-> resp]],
         lastCall |-> [a.lastCall EXCEPT ![c] = call]]

ApiState == [cache |-> cache, lastReq |-> lastReq, lastCall |-> lastCall]

SetApi(a) ==
    /\ cache' = a.cache
    /\ lastReq' = a.lastReq
    /\ lastCall' = a.lastCall

(***************************************************************************)
(* weather_api.py: get_city_coordinates under @st.cache_data(ttl=3600)     *)
(***************************************************************************)
GeoTtl == 3600

\* What the geocoding endpoint can answer to requests.get(GEO_URL):
\* a list with one place, an empty list, a JSON object (the error payload
\* {"cod": 401, "message": ...}; no raise_for_status is called), or no
\* answer at all (requests.exceptions.RequestException).
GeoResponses == {"list", "empty", "object", "exception"}

\* A value the function returns: (lat, lon) of the place, or (None, None).
Pair(c) == [isNone |-> FALSE, place |-> c]
NonePair == [isNone |-> TRUE, place |-> ""]

NoGeoEntry == [present |-> FALSE, value |-> NonePair, created |-> 0]
NoGeoCall == [some |-> FALSE, city |-> "", resp |-> "", requested |-> FALSE,
              raised |-> FALSE, value |-> NonePair]

\* data[0] -- the first element of a list; a dict has no key 0 (KeyError).
First(resp) == IF resp = "list" THEN "item" ELSE "KeyError"

\* The body of get_city_coordinates for the answer resp: what it returns,
\* or that an exception other than RequestException leaves it.
CoordinatesBody(c, resp) ==
    IF resp = "exception" THEN [raised |-> FALSE, value |-> NonePair]
    ELSE IF resp = "empty" THEN [raised |-> FALSE, value |-> NonePair]
    ELSE IF First(resp) = "item" THEN [raised |-> FALSE, value |-> Pair(c)]
    ELSE [raised |-> TRUE, value |-> NonePair]

\* get_city_coordinates(c) at this instant.  A cached return value is
\* served while it is younger than the ttl; a call that raised caches
\* nothing.
get_city_coordinates(c, resp) ==
    LET entry == geoCache[c]
        hit   == entry.present /\ now < entry.created + GeoTtl
        out   == IF hit THEN [raised |-> FALSE, value |-> entry.value]
                 ELSE CoordinatesBody(c, resp)
    IN  /\ geoCache' = IF hit \/ out.raised THEN geoCache
                       ELSE [geoCache EXCEPT ![c] =
                               [present |-> TRUE, value |-> out.value, created |-> now]]
        /\ geoCall' = [some |-> TRUE, city |-> c, resp |-> IF hit THEN "" ELSE resp,
                       requested |-> ~hit, raised |-> out.raised, value |-> out.value]
        /\ UNCHANGED <<timeVars, NotGeo>>

\* Time passes between two calls.
GeoTick ==
    /\ now + GeoStep <= GeoStep * GeoMaxTicks
    /\ now' = now + GeoStep
    /\ UNCHANGED <<tz, NotGeo, geoVars>>

(***************************************************************************)
(* app.py: one action per run of the script (tab1)                         *)
(***************************************************************************)
HistoryLimit == 5

NoSearch == [isNone |-> TRUE, at |-> 0]

\* Nothing rendered yet in this run.
Blank == [searchFetched |-> FALSE, searchValue |-> NoneVal, searchError |-> FALSE,
          displayFetched |-> FALSE, displayValue |-> NoneVal, displayError |-> FALSE,
          dashboard |-> ""]

Session == [city |-> city, last_search |-> last_search,
            search_history |-> search_history, shown |-> Blank, api |-> ApiState]

SetSession(s) ==
    /\ city' = s.city
    /\ last_search' = s.last_search
    /\ search_history' = s.search_history
    /\ shown' = s.shown
    /\ SetApi(s.api)

\* weather_data and 'cod' in weather_data
HasCod(d) == d.json /\ d.hasCod

\* Mutant: any payload that carries a cod counts as a success.
CodIsAny(d) == d.cod >= 200

\* weather_data['cod'] == 200
CodIs200(d) == d.cod = 200

\* Mutant: the history is never cut.
PushHistoryUncut(h, c) == <<c>> \o h

\* search_history.insert(0, city); search_history = search_history[:5]
PushHistory(h, c) ==
    LET ins == <<c>> \o h
    IN  SubSeq(ins, 1, Min(Len(ins), HistoryLimit))

InHistory(h, c) == \E i \in 1..Len(h) : h[i] = c

\* "Process the search": if search_clicked and city_input.
SearchSection(s, city_input, search_clicked, resp) ==
    IF ~(search_clicked /\ city_input # "") THEN s
    ELSE
      LET r  == get_current_weather(s.api, city_input, now, resp)
          s1 == [s EXCEPT !.city = city_input,
                          !.api = [cache |-> r.cache, lastReq |-> r.lastReq,
                                   lastCall |-> r.lastCall],
                          !.shown.searchFetched = TRUE,
                          !.shown.searchValue = r.value]
      IN  IF HasCod(r.value)
             THEN IF CodIs200(r.value)
                     THEN [s1 EXCEPT
                             !.search_history =
                                 IF InHistory(s.search_history, city_input)
                                    THEN s.search_history
                                    ELSE PushHistory(s.search_history, city_input),
                             !.last_search = [isNone |-> FALSE, at |-> now + tz]]
                     ELSE [s1 EXCEPT !.shown.searchError = TRUE]
             ELSE [s1 EXCEPT !.shown.searchError = TRUE]

\* "Display the current weather if a city is selected".
DisplaySection(s, resp) ==
    IF ~(s.city # "" /\ ~s.last_search.isNone) THEN s
    ELSE
      LET r  == get_current_weather(s.api, s.city, now, resp)
          s1 == [s EXCEPT !.api = [cache |-> r.cache, lastReq |-> r.lastReq,
                                   lastCall |-> r.lastCall],
                          !.shown.displayFetched = TRUE,
                          !.shown.displayValue = r.value]
      IN  IF HasCod(r.value)
             THEN IF CodIs200(r.value)
                     THEN [s1 EXCEPT !.shown.dashboard = s.city]
                     ELSE [s1 EXCEPT !.shown.displayError = TRUE]
             ELSE [s1 EXCEPT !.shown.displayError = TRUE]

NoRun == [kind |-> "none", arg |-> "", ok |-> FALSE, historyBefore |-> <<>>]

\* weather_data and 'cod' in weather_data and weather_data['cod'] == 200
Succeeded(d) == HasCod(d) /\ CodIs200(d)

\* What get_current_weather(c) returns in this run when the provider would
\* answer resp.
Fetched(c, resp) == IF CacheHit(cache[c], now) THEN cache[c].value ELSE resp

\* A run in which the user clicked "Search Weather" with city_input typed;
\* resp is what the provider answers during this run.
RunSearch(city_input, resp) ==
    /\ SetSession(DisplaySection(SearchSection(Session, city_input, TRUE, resp), resp))
    /\ run' = [kind |-> "search", arg |-> city_input,
               ok |-> city_input # "" /\ Succeeded(Fetched(city_input, resp)),
               historyBefore |-> search_history]
    /\ succeeded' = IF city_input # "" /\ Succeeded(Fetched(city_input, resp))
                        THEN succeeded \cup {city_input}
                        ELSE succeeded
    /\ UNCHANGED <<timeVars, NotApp>>

\* A run without any button clicked (another widget changed, a tab opened).
Rerun(resp) ==
    /\ SetSession(DisplaySection(Session, resp))
    /\ run' = [kind |-> "rerun", arg |-> "", ok |-> FALSE,
               historyBefore |-> search_history]
    /\ UNCHANGED <<succeeded, timeVars, NotApp>>

\* Mutant: Clear Results empties the city and keeps last_search.
ClearCityOnly(s) == [s EXCEPT !.city = ""]

\* if clear_clicked: city = ""; last_search = None
ClearResults(s) == [s EXCEPT !.city = "", !.last_search = NoSearch]

\* "Clear Results": the state is reset, st.rerun() starts the script again
\* with no button clicked.
RunClear(resp) ==
    /\ SetSession(DisplaySection(ClearResults(Session), resp))
    /\ run' = [kind |-> "clear", arg |-> "", ok |-> FALSE,
               historyBefore |-> search_history]
    /\ UNCHANGED <<succeeded, timeVars, NotApp>>

\* A recent-search chip: city is set, st.rerun() starts the script again.
RunChip(i, resp) ==
    /\ i \in 1..Len(search_history)
    /\ SetSession(DisplaySection([Session EXCEPT !.city = search_history[i]], resp))
    /\ run' = [kind |-> "chip", arg |-> search_history[i],
               ok |-> Succeeded(Fetched(search_history[i], resp)),
               historyBefore |-> search_history]
    /\ UNCHANGED <<succeeded, timeVars, NotApp>>

\* "Use this city": offered when city_input differs from the session city
\* and get_city_suggestions returned something; the pick becomes the city.
RunUseSuggestion(city_input, selected_city, resp) ==
    /\ city_input # ""
    /\ city_input # city
    /\ SetSession(DisplaySection([Session EXCEPT !.city = selected_city], resp))
    /\ run' = [kind |-> "use", arg |-> selected_city, ok |-> FALSE,
               historyBefore |-> search_history]
    /\ UNCHANGED <<succeeded, timeVars, NotApp>>

Tick ==
    /\ now + AppStep <= AppStep * AppMaxTicks
    /\ now' = now + AppStep
    /\ UNCHANGED <<tz, appVars, apiVars, NotApp>>

(***************************************************************************)
(* ml_forecast.py                                                          *)
(*                                                                         *)
(* Units: temp in 0.01 degC, rain in 0.01 mm, rhum in 0.1 %.  A cell of a  *)
(* pandas column is a record [nan, v]; NaN is the missing value that       *)
(* shift() and rolling() produce.  The readings of county_data themselves  *)
(* are numbers (no missing reading in the CSV).  The sine/cosine calendar  *)
(* features are functions of the date and never missing; they take no part *)
(* in what is modelled here.                                               *)
(***************************************************************************)
NaN == [nan |-> TRUE, v |-> 0]
Cell(x) == [nan |-> FALSE, v |-> x]

\* The sequence <<F(1), ..., F(n)>>, built element by element.
RECURSIVE Tabulate(_, _)
Tabulate(F(_), n) == IF n = 0 THEN <<>> ELSE Append(Tabulate(F, n - 1), F(n))

\* F applied to the value of x, x being computed once.
With(x, F(_)) == CHOOSE r \in {F(v) : v \in {x}} : TRUE

RECURSIVE SumSeq(_)
SumSeq(q) == IF q = <<>> THEN 0 ELSE Head(q) + SumSeq(Tail(q))

RECURSIVE SortSet(_)
SortSet(S) ==
    IF S = {} THEN <<>>
    ELSE LET m == CHOOSE x \in S : \A y \in S : x <= y
         IN  <<m>> \o SortSet(S \ {m})

\* The readings of one date, in file order.
ReadingsOn(data, d) == SelectSeq(data, LAMBDA r : r.date = d)

FieldSeq(q, f) == With(q, LAMBDA s : Tabulate(LAMBDA i : s[i][f], Len(s)))

\* groupby([date, county]).agg(temp mean, rain sum[, rhum mean]); without an
\* rhum column the daily table gets rhum = 80.  groupby sorts by date.
DefaultRhum == 80

DayRow(rs, has_humidity) ==
    With(rs, LAMBDA q :
        [date |-> q[1].date,
         temp |-> SumSeq(FieldSeq(q, "temp")) \div Len(q),
         rain |-> SumSeq(FieldSeq(q, "rain")),
         rhum |-> IF has_humidity
                     THEN SumSeq(FieldSeq(q, "rhum")) \div Len(q)
                     ELSE DefaultRhum * 10])

DailyData(data, has_humidity) ==
    With(data, LAMBDA t :
        With(SortSet({t[i].date : i \in 1..Len(t)}), LAMBDA dates :
            Tabulate(LAMBDA k : DayRow(ReadingsOn(t, dates[k]), has_humidity),
                     Len(dates))))

\* Series.shift(k): row i takes the value of row i - k, NaN outside.
Shift(col, k) ==
    With(col, LAMBDA c :
        Tabulate(LAMBDA i : IF (i - k) \in 1..Len(c) THEN c[i - k] ELSE NaN,
                 Len(c)))

\* Series.rolling(window=w).mean(): NaN until w rows are there.
Rolling(col, w) ==
    With(col, LAMBDA c :
        Tabulate(LAMBDA i : IF i >= w
                               THEN Cell(SumSeq(FieldSeq(SubSeq(c, i - w + 1, i), "v")) \div w)
                               ELSE NaN,
                 Len(c)))

\* fillna(method='ffill') on the rows 1..n: a NaN takes the last value above
\* it, if any.
RECURSIVE FfillTo(_, _)
FfillTo(c, n) ==
    IF n = 0 THEN <<>>
    ELSE With(FfillTo(c, n - 1), LAMBDA above :
             Append(above, IF c[n].nan /\ n > 1 THEN above[n - 1] ELSE c[n]))

Ffill(col) == With(col, LAMBDA c : FfillTo(c, Len(c)))

\* fillna(method='bfill') on the rows n..Len: a NaN takes the next value
\* below it, if any.
RECURSIVE BfillFrom(_, _)
BfillFrom(c, n) ==
    IF n > Len(c) THEN <<>>
    ELSE With(BfillFrom(c, n + 1), LAMBDA below :
             <<IF c[n].nan /\ below # <<>> THEN below[1] ELSE c[n]>> \o below)

Bfill(col) == With(col, LAMBDA c : BfillFrom(c, 1))

FillNa(col) == Ffill(Bfill(col))

Measures == {"temp", "rain", "rhum"}
Lags     == <<1, 2, 3, 7>>
Windows  == <<3, 7>>
Horizon  == 5
ForecastLimit == 5

\* preprocess_data_for_prediction: the daily table with, per measure, the
\* value, its lags, its rolling means (the features) and its five
\* forward-shifted targets, all passed through bfill then ffill.
Column(daily, m) == With(daily, LAMBDA d : Tabulate(LAMBDA i : Cell(d[i][m]), Len(d)))

Features(col) ==
    With(col, LAMBDA c :
        <<FillNa(c)>>
        \o Tabulate(LAMBDA k : FillNa(Shift(c, Lags[k])), Len(Lags))
        \o Tabulate(LAMBDA k : FillNa(Rolling(c, Windows[k])), Len(Windows)))

Futures(col) ==
    With(col, LAMBDA c : Tabulate(LAMBDA h : FillNa(Shift(c, -h)), Horizon))

\* Mutant: the daily table keeps the columns the aggregation gave it.
AggregatedColumns(has_humidity) ==
    IF has_humidity THEN {"temp", "rain", "rhum"} ELSE {"temp", "rain"}

\* The measure columns of daily_data: those aggregated, and rhum assigned
\* when the input had none.
DailyColumns(has_humidity) ==
    IF has_humidity THEN {"temp", "rain", "rhum"} ELSE {"temp", "rain"} \cup {"rhum"}

preprocess_data_for_prediction(county_data, has_humidity) ==
    With(DailyData(county_data, has_humidity), LAMBDA daily :
        [n       |-> Len(daily),
         hasRhum |-> "rhum" \in DailyColumns(has_humidity),
         rhum    |-> Column(daily, "rhum"),
         feature |-> [temp |-> Features(Column(daily, "temp")),
                      rain |-> Features(Column(daily, "rain")),
                      rhum |-> Features(Column(daily, "rhum"))],
         future  |-> [temp |-> Futures(Column(daily, "temp")),
                      rain |-> Futures(Column(daily, "rain")),
                      rhum |-> Futures(Column(daily, "rhum"))]])

MinTrainRows == 10

\* Mutant: the threshold test is off by one (>= 10 instead of > 10).
EnoughRowsInclusive(k) == k >= MinTrainRows

\* Mutant: the threshold test asks for one row more.
EnoughRowsStrict(k) == k > MinTrainRows + 1

\* if len(train_data) > 10
EnoughRows(k) == k > MinTrainRows

\* fit_models: train_data = data.dropna(subset=targets); with more than 10
\* rows the forests are fitted, else (None, None, None).  A NaN left in X
\* or y makes fit raise, which the except clause turns into None as well.
\* A fitted forest is kept as the range of its training targets per
\* horizon: a regression forest predicts an average of training targets.
FitOn(data) ==
    LET subset == IF data.hasRhum THEN Measures ELSE {"temp", "rain"}
        train  == {i \in 1..data.n :
                     \A m \in subset : \A h \in 1..Horizon :
                        ~data.future[m][h][i].nan}
        xnan   == \E i \in train : \E m \in subset :
                     \E f \in 1..Len(data.feature[m]) : data.feature[m][f][i].nan
        targets(m, h) == {data.future[m][h][i].v : i \in train}
        range(m, h) ==
            [lo |-> CHOOSE x \in targets(m, h) : \A y \in targets(m, h) : x <= y,
             hi |-> CHOOSE x \in targets(m, h) : \A y \in targets(m, h) : x >= y]
    IN  IF EnoughRows(Cardinality(train)) /\ ~xnan
           THEN [fitted |-> TRUE, trainRows |-> Cardinality(train),
                 model |-> [temp |-> Tabulate(LAMBDA h : range("temp", h), Horizon),
                            rain |-> Tabulate(LAMBDA h : range("rain", h), Horizon),
                            rhum |-> Tabulate(LAMBDA h : range("rhum", h), Horizon)]]
           ELSE [fitted |-> FALSE, trainRows |-> Cardinality(train),
                 model |-> [temp |-> <<>>, rain |-> <<>>, rhum |-> <<>>]]

fit_models(data) == With(data, FitOn)

\* numpy round: to the nearest multiple of unit, ties to the even one.
RoundTo(x, unit) ==
    LET q == x \div unit
        r == x % unit
    IN  IF 2 * r < unit THEN q * unit
        ELSE IF 2 * r > unit THEN (q + 1) * unit
        ELSE IF q % 2 = 0 THEN q * unit ELSE (q + 1) * unit

Unclipped(x, lo, hi) == x

\* np.clip(x, lo, hi)
Clip(x, lo, hi) == Max(lo, Min(x, hi))

TempBand     == 150     \* +- 1.5 degC
HumidityMin  == 30
HumidityMax  == 100

\* temp_lower = (temp - 1.5).clip(lower=0)
TempLower(temp) == Max(temp - TempBand, 0)

NoForecast == [isNone |-> TRUE, rows |-> <<>>]

\* Row i of the forecast: the predictions of the forests for day i (or the
\* humidity formula), the random variation (with alternating sign from row
\* to row), the rounding and the temperature band.
ForecastRow(model, useModel, i, pick, jit) ==
    LET pred(m) == IF pick = "lo" THEN model[m][i].lo ELSE model[m][i].hi
        sign  == IF i % 2 = 1 THEN 1 ELSE -1
        temp0 == pred("temp")
        rain0 == pred("rain")
        hum0  == IF useModel THEN pred("rhum")
                 ELSE 700 + (rain0 * 3) \div 10 - (temp0 * 5) \div 100
        temp  == RoundTo(temp0 + sign * jit.temp, 10)
        rain  == RoundTo(Max(0, rain0 + jit.rain), 1)
        hum   == RoundTo(Clip(hum0 + sign * jit.rhum,
                              HumidityMin * 10, HumidityMax * 10), 10) \div 10
    IN  [day |-> i, temp |-> temp, rain |-> rain, humidity |-> hum,
         temp_upper |-> temp + TempBand, temp_lower |-> TempLower(temp)]

\* predict_county_weather, first half: None for an empty table, else the
\* preprocessed table and what fit_models makes of it.  This half depends on
\* neither forecast_days nor the random draws.
TrainOn(county_data, has_humidity) ==
    IF county_data = <<>> \/ county_data[1].county = ""
       THEN [empty |-> TRUE, dailyRows |-> 0, hasRhum |-> FALSE, dailyRhum |-> <<>>,
             fit |-> [fitted |-> FALSE, trainRows |-> 0,
                      model |-> [temp |-> <<>>, rain |-> <<>>, rhum |-> <<>>]]]
    ELSE With(preprocess_data_for_prediction(county_data, has_humidity), LAMBDA processed :
             [empty |-> processed.n = 0, dailyRows |-> processed.n,
              hasRhum |-> processed.hasRhum, dailyRhum |-> processed.rhum,
              fit |-> fit_models(processed)])

\* predict_county_weather, second half: None when the table was empty or
\* the fit failed, else min(forecast_days, 5) rows.  pick says which end of
\* its range each forest answers with; jit is the random variation drawn
\* for the rows.  The result carries the returned table and, for the
\* record, what fit_models saw.
predict_county_weather(trained, forecast_days, pick, jit) ==
    LET days == Min(forecast_days, ForecastLimit)
        useModel == trained.hasRhum /\ trained.fit.fitted
    IN  IF trained.empty
           THEN [result |-> NoForecast, reachedFit |-> FALSE, fitted |-> FALSE,
                 trainRows |-> 0, dailyRows |-> 0, usedFormula |-> FALSE,
                 hasRhum |-> FALSE, dailyRhum |-> <<>>]
        ELSE IF ~trained.fit.fitted
           THEN [result |-> NoForecast, reachedFit |-> TRUE, fitted |-> FALSE,
                 trainRows |-> trained.fit.trainRows, dailyRows |-> trained.dailyRows,
                 usedFormula |-> FALSE,
                 hasRhum |-> trained.hasRhum, dailyRhum |-> trained.dailyRhum]
        ELSE [result |-> [isNone |-> FALSE,
                          rows |-> Tabulate(LAMBDA i : ForecastRow(trained.fit.model,
                                                                   useModel, i, pick, jit),
                                            days)],
              reachedFit |-> TRUE, fitted |-> TRUE,
              trainRows |-> trained.fit.trainRows, dailyRows |-> trained.dailyRows,
              usedFormula |-> ~useModel,
              hasRhum |-> trained.hasRhum, dailyRhum |-> trained.dailyRhum]

(***************************************************************************)
(* attached_assets/ireland_forecast.py: the formula-based forecast         *)
(***************************************************************************)
\* county_baselines (0.01 degC, 0.01 mm) and county_factors (percent) of the
\* counties the model selects.
county_baselines ==
    [Carlow  |-> [temp |-> 980, rain |-> 230],
     Sligo   |-> [temp |-> 830, rain |-> 330],
     Donegal |-> [temp |-> 810, rain |-> 320]]

county_factors ==
    [Carlow  |-> [temp_change |-> 0, rain_change |-> 7],
     Sligo   |-> [temp_change |-> 3, rain_change |-> 0],
     Donegal |-> [temp_change |-> 2, rain_change |-> -4]]

\* generate_historical_data_to_2025(county): the January 2025 entry,
\* temps[-1] = temp - 2.0 and rains[-1] = rain * 1.2.
LatestHistorical(county) ==
    [temp |-> county_baselines[county].temp - 200,
     rain |-> (county_baselines[county].rain * 12) \div 10]

\* generate_forecast_for_county(county, today_weather, days): None without
\* today's weather, else days values computed from the January 2025 entry.
\* The sums are carried in 0.0001 units and rounded to 0.01 (round(x, 2)).
generate_forecast_for_county(county, today_ok, days) ==
    LET base == LatestHistorical(county)
        f    == county_factors[county]
        temp(i) == RoundTo(base.temp * 100 + i * f.temp_change * base.temp
                           + ((i % 2) * 2000 - 1000), 100) \div 100
        rain(i) == RoundTo(base.rain * 100 + i * f.rain_change * base.rain
                           + (i % 3) * 1000, 100) \div 100
    IN  IF ~today_ok
           THEN [isNone |-> TRUE, temperature |-> <<>>, rainfall |-> <<>>]
           ELSE [isNone |-> FALSE,
                 temperature |-> Tabulate(temp, days),
                 rainfall    |-> Tabulate(rain, days)]

(***************************************************************************)
(* ireland_forecast.py: the forecast page                                  *)
(***************************************************************************)
Counties == {"Carlow", "Sligo", "Donegal"}

\* The readings the CSV holds for each county: daily mean temperature
\* t0 + dt * (day % 3), rain per reading r0 + dr * (day % 2), humidity
\* from h0 upwards.
Climate ==
    [Carlow  |-> [t0 |-> 950,  dt |-> 130, r0 |-> 20, dr |-> 30, h0 |-> 780],
     Sligo   |-> [t0 |-> 20,   dt |-> 50,  r0 |-> 5,  dr |-> 0,  h0 |-> 880],
     Donegal |-> [t0 |-> -300, dt |-> 40,  r0 |-> 0,  dr |-> 15, h0 |-> 975]]

\* Random variation added to the predictions: numpy's normal(0, 0.2) for
\* temp, exponential(0.1) for rain (never negative), normal(0, 1.5) for
\* humidity.
Jitters ==
    {[temp |-> 25,  rain |-> 10, rhum |-> 15],
     [temp |-> -35, rain |-> 4,  rhum |-> -40]}

\* The rows of the CSV for the county: two readings on each of n days.
CountyData(county, n) ==
    LET profile == Climate[county]
        reading(k) ==
          LET d == (k + 1) \div 2
              mean == profile.t0 + profile.dt * (d % 3)
          IN  [county |-> county,
               date |-> d,
               temp |-> IF k % 2 = 1 THEN mean - 60 ELSE mean + 60,
               rain |-> profile.r0 + profile.dr * (d % 2),
               rhum |-> profile.h0 + 10 * (d % 2) + (IF k % 2 = 1 THEN 0 ELSE 10)]
    IN  Tabulate(reading, 2 * n)

NoFcCall ==
    [some |-> FALSE, days |-> 0, histDays |-> 0,
     out |-> [result |-> NoForecast, reachedFit |-> FALSE, fitted |-> FALSE,
              trainRows |-> 0, dailyRows |-> 0, usedFormula |-> FALSE,
              hasRhum |-> FALSE, dailyRhum |-> <<>>]]

\* One more day of readings reaches the CSV; the page is run again and
\* shows no forecast until the button is clicked.
AddDay ==
    /\ fcDays < MaxDays
    /\ fcDays' = fcDays + 1
    /\ fcCall' = NoFcCall
    /\ UNCHANGED <<fcCounty, fcHasRhum, NotFc>>

\* "Generate Forecast": county_data = ireland_df[county == forecast_county];
\* forecast_data = predict_county_weather(county_data, forecast_days), for
\* every forecast_days and every random draw.  The table is preprocessed and
\* the models are fitted once, the draws only vary what follows.
GenerateForecast ==
    \E trained \in {TrainOn(CountyData(fcCounty, fcDays), fcHasRhum)} :
      \E forecast_days \in 1..MaxForecastDays, pick \in {"lo", "hi"}, jit \in Jitters :
        /\ fcCall' = [some |-> TRUE, days |-> forecast_days, histDays |-> fcDays,
                      out |-> predict_county_weather(trained, forecast_days, pick, jit)]
        /\ UNCHANGED <<fcCounty, fcHasRhum, fcDays, NotFc>>

(***************************************************************************)
(* ml_forecast.py: load_forecast_models under @st.cache_resource           *)
(*                                                                         *)
(* st.cache_resource hands every caller in the process the same three      *)
(* RandomForestRegressor objects.  Each Streamlit session runs its script  *)
(* in a thread of its own, so two sessions can be inside                   *)
(* predict_county_weather at once; fit and predict are taken as one step   *)
(* each.                                                                   *)
(***************************************************************************)
Sessions == {1, 2}

\* The objects as load_forecast_models creates them.
UnfittedModels ==
    [fitted |-> FALSE, county |-> "",
     model |-> [temp |-> <<>>, rain |-> <<>>, rhum |-> <<>>]]

NoRunningForecast ==
    [pc |-> "idle", county |-> "", fitCounty |-> "", result |-> NoForecast]

\* predict_county_weather(county_data, forecast_days) is entered by session
\* u for a county with MaxDays days of history.
PredictEnter(u, county) ==
    /\ fcRun[u].pc \in {"idle", "done"}
    /\ fcRun' = [fcRun EXCEPT ![u] = [NoRunningForecast EXCEPT !.pc = "fit",
                                                               !.county = county]]
    /\ UNCHANGED <<fcModels, NotModels>>

\* fit_models(processed_data): the cached objects are fitted in place on
\* this session's table; with too few rows they are left as they are and
\* the call returns None.
PredictFit(u) ==
    /\ fcRun[u].pc = "fit"
    /\ \E trained \in {TrainOn(CountyData(fcRun[u].county, MaxDays), fcHasRhum)} :
         IF trained.fit.fitted
            THEN /\ fcModels' = [fitted |-> TRUE, county |-> fcRun[u].county,
                                 model |-> trained.fit.model]
                 /\ fcRun' = [fcRun EXCEPT ![u].pc = "predict"]
            ELSE /\ fcModels' = fcModels
                 /\ fcRun' = [fcRun EXCEPT ![u].pc = "done"]
    /\ UNCHANGED NotModels

\* temp_model.predict(X), rain_model.predict(X), humidity_model.predict(X)
\* and the rest of predict_county_weather: the rows come from whatever the
\* cached objects hold when this step runs.
PredictRows(u, forecast_days, pick, jit) ==
    /\ fcRun[u].pc = "predict"
    /\ fcRun' = [fcRun EXCEPT
                   ![u].pc = "done",
                   ![u].fitCounty = fcModels.county,
                   ![u].result =
                       [isNone |-> FALSE,
                        rows |-> Tabulate(LAMBDA i : ForecastRow(fcModels.model, TRUE,
                                                                 i, pick, jit),
                                          Min(forecast_days, ForecastLimit))]]
    /\ UNCHANGED <<fcModels, NotModels>>

(***************************************************************************)
(* bicycle_analysis.py: the time-of-day filter of render_bicycle_analysis_tab *)
(*                                                                         *)
(* A record is its Hour (Time.dt.hour, 0..23); the year, location, season  *)
(* and weekday filters are left at selections that keep every record.      *)
(***************************************************************************)
MaxTabRecords == 2

Hours == 0..23

time_periods ==
    {"All Day", "Morning (6-10)", "Midday (10-14)", "Afternoon (14-18)",
     "Evening (18-22)", "Night (22-6)"}

hour_ranges ==
    [p \in time_periods \ {"All Day"} |->
        CASE p = "Morning (6-10)"    -> <<6, 10>>
          [] p = "Midday (10-14)"    -> <<10, 14>>
          [] p = "Afternoon (14-18)" -> <<14, 18>>
          [] p = "Evening (18-22)"   -> <<18, 22>>
          [] p = "Night (22-6)"      -> <<22, 6>>]

InRangeUpperInclusive(hour, selected_range) ==
    IF selected_range[1] < selected_range[2]
       THEN hour >= selected_range[1] /\ hour <= selected_range[2]
       ELSE hour >= selected_range[1] \/ hour <= selected_range[2]

\* The mask of the filter: a normal range, or an overnight one.
InRange(hour, selected_range) ==
    IF selected_range[1] < selected_range[2]
       THEN hour >= selected_range[1] /\ hour < selected_range[2]
       ELSE hour >= selected_range[1] \/ hour < selected_range[2]

\* filtered_data after the time of day filter.
FilterByPeriod(hours, selected_time_period) ==
    IF selected_time_period # "All Day"
       THEN {h \in hours : InRange(h, hour_ranges[selected_time_period])}
       ELSE hours

\* One more record is in the bicycle data; the tab is rendered again with
\* the selection as it is.
TabAddRecord(h) ==
    /\ Cardinality(tabHours) < MaxTabRecords
    /\ h \notin tabHours
    /\ tabHours' = tabHours \cup {h}
    /\ tabKept' = FilterByPeriod(tabHours', tabPeriod)
    /\ UNCHANGED <<tabPeriod, NotTab>>

\* The user picks a time period; the tab is rendered again.
TabSelectPeriod(p) ==
    /\ p # tabPeriod
    /\ tabPeriod' = p
    /\ tabKept' = FilterByPeriod(tabHours, p)
    /\ UNCHANGED <<tabHours, NotTab>>

(***************************************************************************)
(* Cycle_Stats.py                                                          *)
(*                                                                         *)
(* A column name is the sequence of its characters, so that Python's       *)
(* 'IN' in col is the substring test it is.                                *)
(***************************************************************************)
\* sub in s
Contains(s, sub) ==
    \E i \in 0..(Len(s) - Len(sub)) : SubSeq(s, i + 1, i + Len(sub)) = sub

TimeCol    == <<"T", "i", "m", "e">>
StrIN      == <<"I", "N">>
StrOUT     == <<"O", "U", "T">>
CyclistIN  == <<"C", "y", "c", "l", "i", "s", "t", " ", "I", "N">>
CyclistOUT == <<"C", "y", "c", "l", "i", "s", "t", " ", "O", "U", "T">>

\* Headers in the style of the Dublin City counter files: a counter, its
\* directional columns, a counter whose name holds "In" in lower case.
Mall     == <<"M", "a", "l", "l">>
MallIN   == Mall \o <<" ">> \o CyclistIN
MallOUT  == Mall \o <<" ">> \o CyclistOUT
Totem    == <<"T", "o", "t", "e", "m">>
TotemIN  == Totem \o <<" ">> \o StrIN
TotemOUT == Totem \o <<" ">> \o StrOUT
Inbound  == <<"I", "n", "b", "o", "u", "n", "d">>
RdNB     == <<"R", "d", " ", "N", "/", "B">>

\* The columns a yearly file may hold after Time, in file order.
Header ==
    [y \in {2020, 2021, 2022} |->
        CASE y = 2020 -> <<Mall, MallIN, TotemOUT>>
          [] y = 2021 -> <<Inbound, MallIN, MallOUT>>
          [] y = 2022 -> <<Totem, TotemOUT, RdNB>>]

\* pd.read_csv: the columns of the file of year y.
Columns(y) == <<TimeCol>> \o bikeColumns[y]

\* The cell of the file of year y in row k, column col.
CountAt(y, k, col) == 100 * k + Len(col)

\* Mutant: only 'IN' is looked for.
HasDirectionInOnly(col) == Contains(col, StrIN)

\* any(substr in col for substr in ['IN', 'OUT'])
HasDirection(col) == Contains(col, StrIN) \/ Contains(col, StrOUT)

\* 2020: [col for col in df_2020.columns
\*        if 'IN' not in col and 'OUT' not in col and col != 'Time']
location_cols_2020(columns) ==
    SelectSeq(columns, LAMBDA col :
        ~Contains(col, StrIN) /\ ~Contains(col, StrOUT) /\ col # TimeCol)

\* 2021 and 2022: without 'Cyclist IN', 'Cyclist OUT' and 'Time' in the
\* name, then without 'IN' and 'OUT'.
NotCyclistDirection(col) ==
    ~Contains(col, CyclistIN) /\ ~Contains(col, CyclistOUT) /\ ~Contains(col, TimeCol)

location_cols_2021(columns) ==
    SelectSeq(SelectSeq(columns, NotCyclistDirection), LAMBDA col : ~HasDirection(col))

location_cols(y, columns) ==
    IF y = 2020 THEN location_cols_2020(columns) ELSE location_cols_2021(columns)

\* df.melt(id_vars=['Time'], value_vars=cols, var_name='Location',
\* value_name='Count') with the Year column: for each column in turn, one
\* row per row of the file.
Melt(y, cols, intervals) ==
    Tabulate(LAMBDA r :
                LET c == ((r - 1) \div intervals) + 1
                    k == ((r - 1) % intervals) + 1
                IN  [Time |-> [year |-> y, slot |-> k],
                     Location |-> cols[c],
                     Count |-> CountAt(y, k, cols[c]),
                     Year |-> y],
             Len(cols) * intervals)

NotLoaded == [loaded |-> FALSE, rows |-> <<>>]

\* load_bicycle_data: the three files melted and concatenated.
load_bicycle_data ==
    /\ bikeData' =
         [loaded |-> TRUE,
          rows |-> Melt(2020, location_cols(2020, Columns(2020)), bikeIntervals[2020])
                   \o Melt(2021, location_cols(2021, Columns(2021)), bikeIntervals[2021])
                   \o Melt(2022, location_cols(2022, Columns(2022)), bikeIntervals[2022])]
    /\ UNCHANGED <<bikeColumns, bikeIntervals, NotBike>>

\* The file of year y comes with one more of its columns; the next run of
\* the page has loaded nothing yet.
AddColumn(y, col) ==
    /\ ~\E i \in 1..Len(bikeColumns[y]) : bikeColumns[y][i] = col
    /\ bikeColumns' = [bikeColumns EXCEPT ![y] =
                          SelectSeq(Header[y], LAMBDA h :
                              h = col \/ \E i \in 1..Len(bikeColumns[y]) :
                                            bikeColumns[y][i] = h)]
    /\ bikeData' = NotLoaded
    /\ UNCHANGED <<bikeIntervals, NotBike>>

\* The file of year y comes with one more row.
AddInterval(y) ==
    /\ bikeIntervals[y] < MaxIntervals
    /\ bikeIntervals' = [bikeIntervals EXCEPT ![y] = @ + 1]
    /\ bikeData' = NotLoaded
    /\ UNCHANGED <<bikeColumns, NotBike>>

(***************************************************************************)
(* utils.py, attached_assets/generate_sample_data.py: the date column      *)
(*                                                                         *)
(* A timestamp is a record [year, month, day, hour, minute, second]; the   *)
(* text of a CSV cell is the sequence of its characters.                   *)
(***************************************************************************)
Digits == <<"0", "1", "2", "3", "4", "5", "6", "7", "8", "9">>

IsDigit(ch) == \E d \in 1..10 : Digits[d] = ch

DigitValue(ch) == (CHOOSE d \in 1..10 : Digits[d] = ch) - 1

\* n written with at least width digits, zero-padded (%d, %m, %H, %M, %Y).
RECURSIVE Pad(_, _)
Pad(n, width) ==
    IF width <= 1 /\ n < 10 THEN <<Digits[n + 1]>>
    ELSE Append(Pad(n \div 10, width - 1), Digits[(n % 10) + 1])

\* The number a run of digits stands for.
RECURSIVE Number(_)
Number(chars) ==
    IF chars = <<>> THEN 0
    ELSE 10 * Number(SubSeq(chars, 1, Len(chars) - 1)) + DigitValue(chars[Len(chars)])

IsLeap(year) == (year % 4 = 0 /\ year % 100 # 0) \/ year % 400 = 0

DaysIn(year, month) ==
    IF month = 2 THEN (IF IsLeap(year) THEN 29 ELSE 28)
    ELSE IF month \in {4, 6, 9, 11} THEN 30 ELSE 31

\* Mutant: to_csv without date_format; str() of the timestamp (ISO form).
isoformat(t) ==
    Pad(t.year, 4) \o <<"-">> \o Pad(t.month, 2) \o <<"-">> \o Pad(t.day, 2)
    \o <<" ">> \o Pad(t.hour, 2) \o <<":">> \o Pad(t.minute, 2)
    \o <<":">> \o Pad(t.second, 2)

\* strftime('%d-%m-%Y %H:%M'): what to_csv(date_format=...) and
\* generate_sample_data.py write; the seconds are not written.
strftime(t) ==
    Pad(t.day, 2) \o <<"-">> \o Pad(t.month, 2) \o <<"-">> \o Pad(t.year, 4)
    \o <<" ">> \o Pad(t.hour, 2) \o <<":">> \o Pad(t.minute, 2)

NoDate ==
    [some |-> FALSE, ok |-> FALSE, year |-> 0, month |-> 0, day |-> 0,
     hour |-> 0, minute |-> 0, second |-> 0]

\* The runs of digits of a text and the characters between them.
RECURSIVE Split(_, _, _)
Split(text, runs, seps) ==
    IF text = <<>> THEN [runs |-> runs, seps |-> seps]
    ELSE IF IsDigit(Head(text))
       THEN Split(Tail(text),
                  [runs EXCEPT ![Len(runs)] = Append(runs[Len(runs)], Head(text))],
                  seps)
       ELSE Split(Tail(text), Append(runs, <<>>), Append(seps, Head(text)))

\* The timestamp read from the fields first-second-year hour:minute, with
\* dayFirst saying which of the first two is the day.
ParseFields(text, dayFirst) ==
    With(Split(text, <<<<>>>>, <<>>), LAMBDA p :
        IF p.seps # <<"-", "-", " ", ":">>
              \/ \E i \in {1, 2, 4, 5} : Len(p.runs[i]) \notin {1, 2}
              \/ Len(p.runs[3]) # 4
           THEN [NoDate EXCEPT !.some = TRUE]
           ELSE LET day    == Number(p.runs[IF dayFirst THEN 1 ELSE 2])
                    month  == Number(p.runs[IF dayFirst THEN 2 ELSE 1])
                    year   == Number(p.runs[3])
                    hour   == Number(p.runs[4])
                    minute == Number(p.runs[5])
                IN  IF month \in 1..12 /\ day \in 1..DaysIn(year, month)
                          /\ hour \in 0..23 /\ minute \in 0..59
                       THEN [some |-> TRUE, ok |-> TRUE, year |-> year,
                             month |-> month, day |-> day, hour |-> hour,
                             minute |-> minute, second |-> 0]
                       ELSE [NoDate EXCEPT !.some = TRUE])

\* Mutant: the format read is '%m-%d-%Y %H:%M'.
to_datetime_month_first(text) == ParseFields(text, FALSE)

\* pd.to_datetime(df['date'], format='%d-%m-%Y %H:%M')
to_datetime(text) == ParseFields(text, TRUE)

\* The timestamps written: a common and a leap year, months of 31, 28 and
\* 29 days, days below and above 12, with and without seconds.
Stamps ==
    {t \in [year : {2015, 2020}, month : {1, 2, 12}, day : {1, 9, 29, 31},
            hour : {0, 9, 23}, minute : {0, 5, 59}, second : {0, 30}] :
        t.day <= DaysIn(t.year, t.month)}

\* generate_sample_ireland_data (and generate_sample_data.py) writes the
\* date cell of a row; nothing is loaded from the new file yet.
\* counties of generate_sample_ireland_data
SampleCounties ==
    {"Dublin", "Galway", "Carlow", "Clare", "Cork", "Cavan", "Westmeath",
     "Mayo", "Sligo", "Meath", "Tipperary", "Donegal", "Wexford", "Roscommon"}

\* counties added by load_ireland_weather_data to a file of one county
OtherCounties == SampleCounties \ {"Dublin"}

\* The same counties in the order of the loader's list: one copy of the
\* table is appended for each.
AddedCounties ==
    <<"Galway", "Carlow", "Clare", "Cork", "Cavan", "Westmeath", "Mayo", "Sligo",
      "Meath", "Tipperary", "Donegal", "Wexford", "Roscommon">>

\* The single county a file put in place from elsewhere may hold.
PlacedCounties == {"Dublin", "Cork"}

\* pd.concat([df] + copies): the county column of the table returned for a
\* file whose rows (one timestamp) are for first; a table of several
\* counties is returned as read.
ConcatCounties(first, single) ==
    IF single THEN <<first>> \o AddedCounties ELSE <<"Dublin">> \o AddedCounties

\* The instants of pd.date_range(..., freq='6H') among the timestamps.
SampleDates ==
    {t \in Stamps : t.hour \in {0, 6, 12, 18} /\ t.minute = 0 /\ t.second = 0}

\* np.random: which values the temp and rain cells of a generation got.
Draws == {1, 2}

\* The (county, date) records of a table: its counties at its timestamp.
Records(counties, d) ==
    {<<c, d.year, d.month, d.day, d.hour, d.minute, d.second>> : c \in counties}

NoLoad == [some |-> FALSE, regenerated |-> FALSE, records |-> {}, draw |-> 0,
           county |-> <<>>,
           before |-> [some |-> FALSE, regenerated |-> FALSE, records |-> {},
                       draw |-> 0]]

\* What a load returned, and what the load before it returned when the
\* file was not touched in between.
Loaded(regenerated, records, draw, county) ==
    [some |-> TRUE, regenerated |-> regenerated, records |-> records, draw |-> draw,
     county |-> county,
     before |-> [some |-> csvLoad.some, regenerated |-> csvLoad.regenerated,
                 records |-> csvLoad.records, draw |-> csvLoad.draw]]

\* df.to_csv('counties_with_data_2015_2022.csv', index=False,
\*           date_format='%d-%m-%Y %H:%M') of the generated table
WriteSample(t, draw) ==
    /\ csvStamp' = t
    /\ csvDate' = strftime(t)
    /\ csvCounties' = SampleCounties
    /\ csvDraw' = draw

\* generate_sample_ireland_data() run on its own, for a timestamp t.
generate_sample_ireland_data(t, draw) ==
    /\ WriteSample(t, draw)
    /\ csvParsed' = NoDate
    /\ csvLoad' = [NoLoad EXCEPT !.some = FALSE]
    /\ UNCHANGED NotCsv

\* A file put in place from elsewhere: the one-county dataset, its date
\* column in the format the loader reads or in another one.
PlaceFile(t, dmy, county) ==
    /\ csvStamp' = t
    /\ csvDate' = IF dmy THEN strftime(t) ELSE isoformat(t)
    /\ csvCounties' = {county}
    /\ csvDraw' = 0
    /\ csvParsed' = NoDate
    /\ csvLoad' = NoLoad
    /\ UNCHANGED NotCsv

\* The file is removed.
RemoveFile ==
    /\ csvDate # <<>>
    /\ csvDate' = <<>>
    /\ csvCounties' = {}
    /\ csvDraw' = 0
    /\ csvParsed' = NoDate
    /\ csvLoad' = NoLoad
    /\ UNCHANGED <<csvStamp, NotCsv>>

\* load_ireland_weather_data(): read_csv and to_datetime inside try; a
\* table of one county gets the other counties added; any exception ends in
\* generate_sample_ireland_data(), whose date_range holds t and whose random
\* values are draw.
load_ireland_weather_data ==
    \E parsed \in {IF csvDate = <<>> THEN NoDate ELSE to_datetime(csvDate)} :
      IF parsed.ok
         THEN /\ csvParsed' = parsed
              /\ csvLoad' = Loaded(FALSE,
                                   Records(IF Cardinality(csvCounties) <= 1
                                              THEN csvCounties \cup OtherCounties
                                              ELSE csvCounties, parsed),
                                   csvDraw,
                                   ConcatCounties(CHOOSE c \in csvCounties : TRUE,
                                                  Cardinality(csvCounties) <= 1))
              /\ UNCHANGED <<csvStamp, csvDate, csvCounties, csvDraw, NotCsv>>
         ELSE \E t \in SampleDates, draw \in Draws :
                /\ WriteSample(t, draw)
                /\ csvParsed' = NoDate
                /\ csvLoad' = Loaded(TRUE, Records(SampleCounties, t), draw,
                                     ConcatCounties("Dublin", FALSE))
                /\ UNCHANGED NotCsv

(***************************************************************************)
(* Cycle_Stats.py: get_weather_data and preprocess_data_for_analysis       *)
(*                                                                         *)
(* A bicycle record is its Date and Count, a weather reading its date and  *)
(* temp; dates are day numbers.                                            *)
(***************************************************************************)
MaxBicycleRecords == 3
MaxReadings       == 2

MergeDates == {1, 2}
Counts     == {1, 2}
Temps      == {50, 90}

NotMerged == [some |-> FALSE, rows |-> <<>>]

\* The values of column f in table q, in ascending order without repeats:
\* the groups of a groupby.
Keys(q, f) == SortSet({q[i][f] : i \in 1..Len(q)})

\* get_weather_data: groupby(date.dt.date).agg(temp max, min, ...), one row
\* for each date that has a reading.
daily_weather(readings) ==
    With(readings, LAMBDA q :
        With(Keys(q, "date"), LAMBDA ks :
            Tabulate(LAMBDA k :
                       With(FieldSeq(SelectSeq(q, LAMBDA r : r.date = ks[k]), "temp"),
                            LAMBDA ts :
                              [date |-> ks[k],
                               temp_max |-> CHOOSE t \in {ts[i] : i \in 1..Len(ts)} :
                                              \A i \in 1..Len(ts) : t >= ts[i],
                               temp_min |-> CHOOSE t \in {ts[i] : i \in 1..Len(ts)} :
                                              \A i \in 1..Len(ts) : t <= ts[i]]),
                     Len(ks))))

\* bicycle_df.groupby('Date')['Count'].sum(), Count renamed Total_Cyclists
daily_bicycle_data(records) ==
    With(records, LAMBDA q :
        With(Keys(q, "Date"), LAMBDA ks :
            Tabulate(LAMBDA k :
                       [Date |-> ks[k],
                        Total_Cyclists |->
                            SumSeq(FieldSeq(SelectSeq(q, LAMBDA r : r.Date = ks[k]),
                                            "Count"))],
                     Len(ks))))

\* One row of the merge: the columns of both sides.
Joined(l, r) ==
    [Date |-> l.Date, Total_Cyclists |-> l.Total_Cyclists, date |-> r.date,
     temp_max |-> r.temp_max, temp_min |-> r.temp_min]

\* A row of the left table that matches nothing, as how='left' keeps it.
Unmatched(l) ==
    [Date |-> l.Date, Total_Cyclists |-> l.Total_Cyclists, date |-> 0,
     temp_max |-> 0, temp_min |-> 0]

RECURSIVE MergeLeft(_, _)
MergeLeft(left, right) ==
    IF left = <<>> THEN <<>>
    ELSE LET l == Head(left)
             matches == SelectSeq(right, LAMBDA r : r.date = l.Date)
         IN  (IF matches = <<>> THEN <<Unmatched(l)>>
              ELSE Tabulate(LAMBDA i : Joined(l, matches[i]), Len(matches)))
             \o MergeLeft(Tail(left), right)

\* pd.merge(left, right, left_on='Date', right_on='date', how='inner'): for
\* each left row in order, a row for every right row of the same date.
RECURSIVE MergeInner(_, _)
MergeInner(left, right) ==
    IF left = <<>> THEN <<>>
    ELSE LET l == Head(left)
             matches == SelectSeq(right, LAMBDA r : r.date = l.Date)
         IN  Tabulate(LAMBDA i : Joined(l, matches[i]), Len(matches))
             \o MergeInner(Tail(left), right)

\* A record reaches the bicycle data; nothing is merged yet.
AddBicycleRecord(d, n) ==
    /\ Len(bicycle_df) < MaxBicycleRecords
    /\ bicycle_df' = Append(bicycle_df, [Date |-> d, Count |-> n])
    /\ merged_data' = NotMerged
    /\ UNCHANGED <<weather_csv, NotMerge>>

\* A reading for Dublin reaches the weather CSV; nothing is merged yet.
AddReading(d, t) ==
    /\ Len(weather_csv) < MaxReadings
    /\ weather_csv' = Append(weather_csv, [date |-> d, temp |-> t])
    /\ merged_data' = NotMerged
    /\ UNCHANGED <<bicycle_df, NotMerge>>

\* preprocess_data_for_analysis(bicycle_df, get_weather_data())
preprocess_data_for_analysis ==
    /\ ~merged_data.some
    /\ merged_data' = [some |-> TRUE,
                       rows |-> MergeInner(daily_bicycle_data(bicycle_df),
                                           daily_weather(weather_csv))]
    /\ UNCHANGED <<bicycle_df, weather_csv, NotMerge>>

(***************************************************************************)
(* Initial states and specifications                                       *)
(***************************************************************************)
InitDb ==
    /\ dbFile = FALSE
    /\ dbTable = FALSE
    /\ rows = <<>>
    /\ dbOp = NoDbOp

\* A new session, nothing cached, for the city names cs a user may type.
InitSession(cs) ==
    /\ city = ""
    /\ last_search = NoSearch
    /\ search_history = <<>>
    /\ shown = Blank
    /\ run = NoRun
    /\ succeeded = {}
    /\ cache = [c \in cs |-> NoEntry]
    /\ lastReq = [c \in cs |-> NoReq]
    /\ lastCall = [c \in cs |-> NoCall]

InitApp == InitSession(Cities)

InitFc ==
    /\ fcCounty = "Carlow"
    /\ fcHasRhum = FALSE
    /\ fcDays = 0
    /\ fcCall = NoFcCall

\* Files with a header of Time alone and one row, nothing loaded.
InitBike ==
    /\ bikeColumns = [y \in {2020, 2021, 2022} |-> <<>>]
    /\ bikeIntervals = [y \in {2020, 2021, 2022} |-> 1]
    /\ bikeData = NotLoaded

InitMerge ==
    /\ bicycle_df = <<>>
    /\ weather_csv = <<>>
    /\ merged_data = NotMerged

InitTab ==
    /\ tabHours = {}
    /\ tabPeriod = "All Day"
    /\ tabKept = {}

InitModels ==
    /\ fcModels = UnfittedModels
    /\ fcRun = [u \in Sessions |-> NoRunningForecast]

InitRace ==
    /\ storeCall = [p \in Callers |-> NoStoreCall]
    /\ dbLock = 0

InitGeo ==
    /\ geoCache = [c \in Cities |-> NoGeoEntry]
    /\ geoCall = NoGeoCall

\* No CSV file written yet.
InitCsv ==
    /\ csvStamp = [year |-> 0, month |-> 0, day |-> 0, hour |-> 0, minute |-> 0,
                   second |-> 0]
    /\ csvDate = <<>>
    /\ csvParsed = NoDate
    /\ csvCounties = {}
    /\ csvDraw = 0
    /\ csvLoad = NoLoad

Init ==
    /\ now = 0
    /\ tz = 0
    /\ InitDb
    /\ InitApp
    /\ InitFc
    /\ InitBike
    /\ InitCsv
    /\ InitGeo
    /\ InitRace
    /\ InitModels
    /\ InitTab
    /\ InitMerge

Next ==
    \/ \E c \in Cities \cup {""}, r \in Responses : RunSearch(c, r)
    \/ \E r \in Responses : Rerun(r)
    \/ \E r \in Responses : RunClear(r)
    \/ \E i \in 1..HistoryLimit, r \in Responses : RunChip(i, r)
    \/ \E c, sel \in Cities, r \in Responses : RunUseSuggestion(c, sel, r)
    \/ Tick

Spec == Init /\ [][Next]_vars

InitDbSpec ==
    /\ now = 0
    /\ tz \in TzOffsets
    /\ InitDb
    /\ InitApp
    /\ InitFc
    /\ InitBike
    /\ InitCsv
    /\ InitGeo
    /\ InitRace
    /\ InitModels
    /\ InitTab
    /\ InitMerge

NextDb ==
    \/ initialize_db
    \/ \E c \in Cities, fault \in StoreFaults : store_weather_data(c, fault)
    \/ DbTick

SpecDb == InitDbSpec /\ [][NextDb]_vars

\* Two sessions of the county forecast page in one process.
NextModels ==
    \/ \E u \in Sessions, county \in Counties : PredictEnter(u, county)
    \/ \E u \in Sessions : PredictFit(u)
    \/ \E u \in Sessions, pick \in {"lo", "hi"}, jit \in Jitters :
          PredictRows(u, 1, pick, jit)

SpecModels == Init /\ [][NextModels]_vars

\* The filters of the bicycle tab.
NextTab ==
    \/ \E h \in Hours : TabAddRecord(h)
    \/ \E p \in time_periods : TabSelectPeriod(p)

SpecTab == Init /\ [][NextTab]_vars

\* The merge of bicycle counts and weather.
NextMerge ==
    \/ \E d \in MergeDates, n \in Counts : AddBicycleRecord(d, n)
    \/ \E d \in MergeDates, t \in Temps : AddReading(d, t)
    \/ preprocess_data_for_analysis

SpecMerge == Init /\ [][NextMerge]_vars

\* Two callers of store_weather_data within one second, on a host whose
\* clock is UTC.
NextRace ==
    \/ initialize_db
    \/ \E p \in Callers, c \in Cities : StoreEnter(p, c)
    \/ \E p \in Callers : StoreSelect(p)
    \/ \E p \in Callers : StoreInsert(p)
    \/ \E p \in Callers : StoreLocked(p)
    \/ \E p \in Callers : StoreCommit(p)

SpecRace == Init /\ [][NextRace]_vars

\* A session in which more cities are searched than the history keeps: the
\* provider knows six of the names typed and answers 404 for the seventh.
HistoryCities == {"Dublin", "Cork", "Galway", "Sligo", "Mayo", "Cavan", "Atlantis"}

ProviderAnswer(c) == IF c = "Atlantis" THEN Err404 ELSE Ok200

InitHistory ==
    /\ now = 0
    /\ tz = 0
    /\ InitDb
    /\ InitSession(HistoryCities)
    /\ InitFc
    /\ InitBike
    /\ InitCsv
    /\ InitGeo
    /\ InitRace
    /\ InitModels
    /\ InitTab
    /\ InitMerge

NextHistory ==
    \/ \E c \in HistoryCities : RunSearch(c, ProviderAnswer(c))
    \/ \E i \in 1..Len(search_history) : RunChip(i, ProviderAnswer(search_history[i]))
    \/ RunClear(NoneVal)

SpecHistory == InitHistory /\ [][NextHistory]_vars

NextGeo ==
    \/ \E c \in Cities, resp \in GeoResponses : get_city_coordinates(c, resp)
    \/ GeoTick

SpecGeo == Init /\ [][NextGeo]_vars

\* The database read back, on a host whose clock is UTC.
InitQuery ==
    /\ InitDbSpec
    /\ tz = 0

NextQuery ==
    \/ initialize_db
    \/ \E c \in Cities : store_weather_data(c, "none")
    \/ \E c \in Cities, start_date \in StartDates, end_date \in EndDates,
          fault \in HistoricalFaults :
            get_historical_data(c, start_date, end_date, fault)
    \/ \E fault \in CitiesFaults : get_cities_with_data(fault)
    \/ DbTick

SpecQuery == InitQuery /\ [][NextQuery]_vars

InitForecast ==
    /\ now = 0
    /\ tz = 0
    /\ InitDb
    /\ InitApp
    /\ fcCounty \in Counties
    /\ fcHasRhum \in BOOLEAN
    /\ fcDays = 0
    /\ fcCall = NoFcCall
    /\ InitBike
    /\ InitCsv
    /\ InitGeo
    /\ InitRace
    /\ InitModels
    /\ InitTab
    /\ InitMerge

NextForecast ==
    \/ AddDay
    \/ GenerateForecast

SpecForecast == InitForecast /\ [][NextForecast]_vars

NextBike ==
    \/ \E y \in {2020, 2021, 2022} : \E i \in 1..Len(Header[y]) : AddColumn(y, Header[y][i])
    \/ \E y \in {2020, 2021, 2022} : AddInterval(y)
    \/ load_bicycle_data

SpecBike == Init /\ [][NextBike]_vars

NextCsv ==
    \/ \E t \in Stamps, draw \in Draws : generate_sample_ireland_data(t, draw)
    \/ load_ireland_weather_data
    \/ \E t \in SampleDates, dmy \in BOOLEAN, county \in PlacedCounties :
          PlaceFile(t, dmy, county)
    \/ RemoveFile

SpecCsv == Init /\ [][NextCsv]_vars

(***************************************************************************)
(* Claims about database.py (SpecDb)                                       *)
(***************************************************************************)
RowsOf(c) == {i \in 1..Len(rows) : rows[i].city = c}

\* C1: on an initialized database, two store_weather_data calls for a city
\* made less than one hour apart leave one row (no two rows of a city were
\* inserted less than an hour apart), and a call made more than one hour
\* after the last stored row of the city inserts a row (a call that was
\* skipped found a row of the city at most one hour old).
C1_OneRowPerCityPerHour ==
    /\ \A c \in Cities : \A i, j \in RowsOf(c) :
           i < j => rows[j].at - rows[i].at >= HourSeconds
    /\ (dbOp.op = "store" /\ dbOp.tableBefore /\ ~dbOp.ret) =>
           \E i \in RowsOf(dbOp.city) : dbOp.at - rows[i].at <= HourSeconds

(***************************************************************************)
(* Claims about app.py and weather_api.py (Spec)                           *)
(***************************************************************************)
Is200(d) == d.json /\ d.hasCod /\ d.cod = 200

\* C2: every search whose response has cod == 200 persists a snapshot of the
\* city through store_weather_data, unless one was persisted within the
\* last hour: after such a search a row of the city, inserted within the
\* last hour, is stored.
C2_SuccessfulFetchPersisted ==
    (shown.searchFetched /\ Is200(shown.searchValue)) =>
        \E i \in 1..Len(rows) :
            /\ rows[i].city = city
            /\ now - rows[i].at <= HourSeconds

\* C9: a fetch that does not yield cod == 200 (another cod, no cod, None)
\* shows an error in the section that fetched, and the run renders no
\* weather dashboard; in the search handler and in the display section.
C9_FailedFetchShowsError ==
    /\ (shown.searchFetched /\ ~Is200(shown.searchValue)) =>
           (shown.searchError /\ shown.dashboard = "")
    /\ (shown.displayFetched /\ ~Is200(shown.displayValue)) =>
           (shown.displayError /\ shown.dashboard = "")

\* A run in which the search handler and the display section both fetched
\* and got None.
C9_Witness ==
    /\ shown.searchFetched /\ shown.searchValue = NoneVal /\ shown.searchError
    /\ shown.displayFetched /\ shown.displayValue = NoneVal /\ shown.displayError

\* get_current_weather(c) was called in this step.
Called(c) == lastCall'[c] # lastCall[c]

\* C10 as stated: a call of get_current_weather(c) made less than 600
\* seconds after the previous call with the same argument issues no HTTP
\* request and returns the value the previous call returned.
C10_TwoCallsWithinTtl ==
    [][\A c \in Cities :
          (Called(c) /\ lastCall[c].some /\ now - lastCall[c].at < CacheTtl) =>
              /\ lastReq'[c] = lastReq[c]
              /\ lastCall'[c].value = lastCall[c].value]_vars

\* C10 amended: the 600 seconds count from the HTTP request that filled the
\* cache.  A call made less than 600 seconds after the last request for its
\* argument issues no request and returns what that request returned (a 200
\* payload, an error payload or None); any other call issues a new request
\* and returns its result.
C10_TtlCountsFromRequest ==
    [][\A c \in Cities :
          Called(c) =>
              IF lastReq[c].some /\ now - lastReq[c].at < CacheTtl
                 THEN /\ lastReq'[c] = lastReq[c]
                      /\ lastCall'[c].value = lastReq[c].value
                 ELSE /\ lastReq'[c] = [some |-> TRUE, at |-> now,
                                        value |-> lastCall'[c].value]]_vars

\* A call served from the cache after the request, and a later request that
\* replaced an expired entry.
C10_Witness ==
    \E c, d \in Cities :
        /\ lastReq[c].some /\ lastCall[c].some
        /\ lastCall[c].at > lastReq[c].at
        /\ lastCall[c].at - lastReq[c].at < CacheTtl
        /\ lastReq[d].some /\ lastReq[d].at >= CacheTtl

(***************************************************************************)
(* Claims about the county forecast (specification SpecForecast)           *)
(***************************************************************************)
Forecast == fcCall.out.result

\* C3 (as stated): for every county history covering at least 10 distinct
\* days and every requested_days >= 1, predict_county_weather does not
\* return None and returns exactly min(requested_days, 5) rows.
C3_TenDaysSuffice ==
    (fcCall.some /\ fcCall.histDays >= 10) =>
        /\ ~Forecast.isNone
        /\ Len(Forecast.rows) = Min(fcCall.days, 5)

\* C3 (amended): for every county history covering more than 10 distinct
\* days and every requested_days >= 1, predict_county_weather does not
\* return None and returns exactly min(requested_days, 5) rows, each with a
\* temp and a rain value.
C3_MoreThanTenDaysSuffice ==
    (fcCall.some /\ fcCall.histDays > 10) =>
        /\ ~Forecast.isNone
        /\ Len(Forecast.rows) = Min(fcCall.days, 5)
        /\ \A i \in 1..Len(Forecast.rows) :
              /\ Forecast.rows[i].day = i
              /\ Forecast.rows[i].temp \in Int
              /\ Forecast.rows[i].rain \in Int

\* A request for more than five days on eleven days of history, answered
\* with five rows.
C3_Witness ==
    /\ fcCall.some
    /\ fcCall.histDays = 11
    /\ fcCall.days > 5
    /\ ~Forecast.isNone
    /\ Len(Forecast.rows) = 5

\* C4: every row of a forecast returned by predict_county_weather satisfies
\* temp_lower <= temp <= temp_upper, also for temperatures below 1.5 and
\* below 0.
C4_TempWithinBand ==
    (fcCall.some /\ ~Forecast.isNone) =>
        \A i \in 1..Len(Forecast.rows) :
            /\ Forecast.rows[i].temp_lower <= Forecast.rows[i].temp
            /\ Forecast.rows[i].temp <= Forecast.rows[i].temp_upper

\* C5 (as stated): fitting succeeds exactly when the preprocessed table has
\* more than 10 daily rows, predict_county_weather returns None when it
\* fails, and the row count compared with 10 equals the number of distinct
\* calendar days of the input.
C5_RowCountIsDistinctDays ==
    (fcCall.some /\ fcCall.out.reachedFit) =>
        /\ fcCall.out.fitted <=> fcCall.out.dailyRows > 10
        /\ ~fcCall.out.fitted => Forecast.isNone
        /\ fcCall.out.trainRows = fcCall.histDays

\* C5 (amended): fitting succeeds exactly when the input covers more than
\* 10 distinct calendar days, predict_county_weather returns None when it
\* fails, and the row count compared with 10 equals the number of distinct
\* calendar days when there are more than 5 of them and is 0 for 1 to 5
\* days (the five-day-ahead target column is then empty and every row is
\* dropped).
C5_FitThreshold ==
    (fcCall.some /\ fcCall.out.reachedFit) =>
        /\ fcCall.out.dailyRows = fcCall.histDays
        /\ fcCall.out.fitted <=> fcCall.histDays > 10
        /\ fcCall.out.fitted => ~Forecast.isNone
        /\ ~fcCall.out.fitted => Forecast.isNone
        /\ fcCall.out.trainRows = IF fcCall.histDays > 5 THEN fcCall.histDays ELSE 0

\* A request on exactly ten days of history: ten rows reach the test and
\* the fit is refused.
C5_Witness ==
    /\ fcCall.some
    /\ fcCall.out.reachedFit
    /\ fcCall.histDays = 10
    /\ fcCall.out.trainRows = 10
    /\ ~fcCall.out.fitted
    /\ Forecast.isNone

EndsWith(s, suffix) ==
    Len(s) >= Len(suffix) /\ SubSeq(s, Len(s) - Len(suffix) + 1, Len(s)) = suffix

IsDirectional(col) == EndsWith(col, <<" ", "I", "N">>) \/ EndsWith(col, <<" ", "O", "U", "T">>)

\* The location columns of the file of year y: all but Time and the
\* directional ones.
LocationColumnsOf(y) ==
    {bikeColumns[y][i] : i \in 1..Len(bikeColumns[y])}
        \ {col \in {bikeColumns[y][i] : i \in 1..Len(bikeColumns[y])} : IsDirectional(col)}

RowsOfYear(y) == {i \in 1..Len(bikeData.rows) : bikeData.rows[i].Year = y}

C8_DateRoundTrip ==
    (csvParsed.some /\ csvStamp.second = 0) =>
        /\ csvParsed.ok
        /\ csvParsed.year = csvStamp.year
        /\ csvParsed.month = csvStamp.month
        /\ csvParsed.day = csvStamp.day
        /\ csvParsed.hour = csvStamp.hour
        /\ csvParsed.minute = csvStamp.minute
        /\ csvParsed.second = csvStamp.second

\* A date read back whose day could be taken for a month: 09-01-2015 09:05.
C8_Witness ==
    /\ csvParsed.some
    /\ csvParsed.ok
    /\ csvStamp.second = 0
    /\ csvStamp.day = 9
    /\ csvStamp.month = 1
    /\ csvDate = <<"0", "9", "-", "0", "1", "-", "2", "0", "1", "5", " ",
                   "0", "9", ":", "0", "5">>


\* C11: store_weather_data returns True exactly when the call added one row
\* to the table; when it returns False the rows are those before the call;
\* no exception leaves the function, whatever went wrong inside it.
C11_StoreReturnsWhetherInserted ==
    dbOp.op = "store" =>
        /\ ~dbOp.raised
        /\ dbOp.ret <=> (/\ Len(rows) = Len(dbOp.rowsBefore) + 1
                         /\ SubSeq(rows, 1, Len(dbOp.rowsBefore)) = dbOp.rowsBefore
                         /\ rows[Len(rows)].city = dbOp.city)
        /\ ~dbOp.ret => rows = dbOp.rowsBefore

\* A store whose INSERT ran and whose commit failed, on a table that already
\* holds a row of another city: False, and the table as it was.
C11_Witness ==
    /\ dbOp.op = "store"
    /\ dbOp.fault = "commit"
    /\ ~dbOp.ret
    /\ dbOp.tableBefore
    /\ Len(rows) >= 1
    /\ ~existing_data(dbOp.city)

\* C12: get_historical_data and get_cities_with_data let no exception out;
\* when the call met an error (no table, a database fault, arguments that
\* are not datetimes) the result is empty; the rows are never changed.
C12_QueriesNeverRaise ==
    dbOp.op \in {"historical", "cities"} =>
        /\ ~dbOp.raised
        /\ rows = dbOp.rowsBefore
        /\ (~dbOp.tableBefore \/ dbOp.fault # "none") => dbOp.result = <<>>

\* get_historical_data called with arguments that are not datetimes on a
\* table whose rows the range would have matched.
C12_Witness ==
    /\ dbOp.op = "historical"
    /\ dbOp.fault = "args"
    /\ dbOp.tableBefore
    /\ \E i \in 1..Len(rows) :
          /\ rows[i].city = dbOp.city
          /\ Between(rows[i].timestamp, dbOp.start.sec, dbOp.end.sec)
    /\ dbOp.result = <<>>


\* The stored rows of the queried city whose timestamp t has Lower(t) and
\* lies at or before the end asked for.
Wanted(Lower(_)) ==
    {i \in 1..Len(dbOp.rowsBefore) :
        /\ dbOp.rowsBefore[i].city = dbOp.city
        /\ Lower(dbOp.rowsBefore[i].timestamp)
        /\ dbOp.rowsBefore[i].timestamp <= dbOp.end.sec}

\* The table returned holds exactly the wanted rows, each once, ascending.
ReturnsExactly(want) ==
    /\ Len(dbOp.result) = Cardinality(want)
    /\ \A i \in want : \E k \in 1..Len(dbOp.result) : dbOp.result[k] = dbOp.rowsBefore[i]
    /\ \A k \in 1..Len(dbOp.result) : \E i \in want : dbOp.result[k] = dbOp.rowsBefore[i]
    /\ \A k \in 1..(Len(dbOp.result) - 1) :
          dbOp.result[k].timestamp <= dbOp.result[k + 1].timestamp

\* The list returned holds each stored city exactly once, ascending.
CitiesListed ==
    /\ \A i \in 1..Len(dbOp.rowsBefore) :
          \E k \in 1..Len(dbOp.result) : dbOp.result[k] = dbOp.rowsBefore[i].city
    /\ \A k \in 1..Len(dbOp.result) :
          \E i \in 1..Len(dbOp.rowsBefore) : dbOp.result[k] = dbOp.rowsBefore[i].city
    /\ \A j, k \in 1..Len(dbOp.result) :
          j < k => CityRank(dbOp.result[j]) < CityRank(dbOp.result[k])

AtOrAfterStart(t) == dbOp.start.sec < t \/ (dbOp.start.sec = t /\ dbOp.start.us = 0)
AtOrAfterStartSecond(t) == dbOp.start.sec <= t

\* C13 as stated: a successful get_historical_data returns exactly the rows
\* of the city with start <= t <= end, ascending; get_cities_with_data
\* returns each stored city once, ascending.
C13_RangeFromStart ==
    /\ (dbOp.op = "historical" /\ dbOp.tableBefore /\ dbOp.fault = "none") =>
           ReturnsExactly(Wanted(AtOrAfterStart))
    /\ (dbOp.op = "cities" /\ dbOp.tableBefore /\ dbOp.fault = "none") =>
           CitiesListed

\* C13 amended: the lower end of the range is start with its microseconds
\* dropped: exactly the rows of the city with floor(start) <= t <= end are
\* returned, ascending; the list of cities is as stated.
C13_RangeFromStartSecond ==
    /\ (dbOp.op = "historical" /\ dbOp.tableBefore /\ dbOp.fault = "none") =>
           ReturnsExactly(Wanted(AtOrAfterStartSecond))
    /\ (dbOp.op = "cities" /\ dbOp.tableBefore /\ dbOp.fault = "none") =>
           CitiesListed

\* A range that starts half a second after a stored row and ends half a
\* second after another returned both, and the other city's row was left out.
C13_Witness ==
    /\ dbOp.op = "historical"
    /\ dbOp.fault = "none"
    /\ dbOp.start.us # 0
    /\ Len(dbOp.result) = 2
    /\ dbOp.result[1].timestamp = dbOp.start.sec
    /\ dbOp.result[2].timestamp = dbOp.end.sec
    /\ Len(rows) = 3


\* C14: every call of get_city_coordinates ends with a (lat, lon) pair or
\* (None, None), whatever the endpoint answered; no exception leaves it.
C14_CoordinatesNeverRaise ==
    geoCall.some =>
        /\ ~geoCall.raised
        /\ geoCall.value = NonePair \/ geoCall.value = Pair(geoCall.city)


C16_DefaultHumidityIsModelled ==
    /\ (fcCall.some /\ ~fcHasRhum /\ fcCall.out.reachedFit) =>
          /\ fcCall.out.hasRhum
          /\ Len(fcCall.out.dailyRhum) = fcCall.histDays
          /\ \A k \in 1..Len(fcCall.out.dailyRhum) : fcCall.out.dailyRhum[k] = Cell(80 * 10)
    /\ fcCall.some => ~fcCall.out.usedFormula

\* A forecast returned for a history of 12 days that has no rhum column.
C16_Witness ==
    /\ fcCall.some
    /\ ~fcHasRhum
    /\ fcCall.out.fitted
    /\ ~Forecast.isNone
    /\ fcCall.histDays = 12
    /\ Len(fcCall.out.dailyRhum) = 12


(***************************************************************************)
(* Claims about the session of the Global Weather tab                      *)
(***************************************************************************)
\* C17: search_history never has more than 5 entries, holds no city twice
\* and holds only cities a search of which returned cod 200; a successful
\* search of a city not in it puts the city first, before the entries
\* already there; a successful search of a city in it, and every run that
\* is not a successful search, leaves it as it was.
C17_HistoryBounded ==
    /\ Len(search_history) <= 5
    /\ \A i, j \in 1..Len(search_history) :
          i # j => search_history[i] # search_history[j]
    /\ \A i \in 1..Len(search_history) : search_history[i] \in succeeded
    /\ (run.kind = "search" /\ run.ok /\ ~InHistory(run.historyBefore, run.arg)) =>
          /\ search_history[1] = run.arg
          /\ \A i \in 2..Len(search_history) :
                search_history[i] = run.historyBefore[i - 1]
          /\ Len(search_history) >= Len(run.historyBefore)
    /\ (run.kind # "none" /\ ~(run.kind = "search" /\ run.ok
                               /\ ~InHistory(run.historyBefore, run.arg))) =>
          search_history = run.historyBefore

\* A sixth city was searched successfully with five in the history: it is
\* first and the oldest entry is gone.
C17_Witness ==
    /\ run.kind = "search"
    /\ run.ok
    /\ Len(run.historyBefore) = 5
    /\ ~InHistory(run.historyBefore, run.arg)
    /\ Len(search_history) = 5
    /\ ~InHistory(search_history, run.historyBefore[5])
    /\ "Atlantis" \notin succeeded

\* C18: after Clear Results city is "" and last_search is None, the history
\* is what it was, and the run that follows shows neither a dashboard nor a
\* fetch error (it fetches nothing); the same for later runs without a click.
C18_ClearResets ==
    (run.kind = "clear" \/ (run.kind = "rerun" /\ city = "")) =>
        /\ run.kind = "clear" => city = "" /\ last_search.isNone
        /\ search_history = run.historyBefore
        /\ shown.dashboard = ""
        /\ ~shown.displayError
        /\ ~shown.searchError
        /\ ~shown.displayFetched

\* Clear Results clicked while a dashboard was on the page.
C18_Witness ==
    /\ run.kind = "clear"
    /\ search_history # <<>>
    /\ \E c \in Cities : lastCall[c].some /\ lastCall[c].value = Ok200

\* C19: last_search is set only if the last search of the city in session
\* state returned cod 200: right after a search that failed, the city is
\* the one searched, so last_search is None and the display section did not
\* run.
C19_LastSearchMeansSuccess ==
    (run.kind = "search" /\ run.arg # "" /\ ~run.ok) =>
        /\ city = run.arg
        /\ last_search.isNone
        /\ ~shown.displayFetched

\* C20: after a click on the chip of city c the session city is c, and the
\* dashboard of c is shown whenever get_current_weather(c) gives cod 200 in
\* that run, whatever the state the chip was clicked in.
C20_ChipShowsWeather ==
    run.kind = "chip" =>
        /\ city = run.arg
        /\ run.ok => shown.dashboard = run.arg


(***************************************************************************)
(* Claims about concurrent callers (SpecRace)                              *)
(***************************************************************************)
\* C21: when two store_weather_data calls for one city ran at the same
\* time, both entered with no row of the city in the last hour, and both
\* have returned, exactly one of them inserted a row.
C21_OneInsertUnderInterleaving ==
    (/\ storeCall[1].pc = "done" /\ storeCall[2].pc = "done"
     /\ storeCall[1].overlap /\ storeCall[2].overlap
     /\ storeCall[1].city = storeCall[2].city
     /\ storeCall[1].clean /\ storeCall[2].clean) =>
        storeCall[1].ret # storeCall[2].ret


(***************************************************************************)
(* Further claims about database.py (SpecDb)                               *)
(***************************************************************************)
\* C23: whatever the UTC offset of the host, a store on an initialized
\* database is refused exactly when a row of the city was inserted less
\* than one hour before it.
C23_WindowIndependentOfZone ==
    (dbOp.op = "store" /\ dbOp.tableBefore /\ dbOp.fault = "none") =>
        (~dbOp.ret <=>
            \E i \in 1..Len(dbOp.rowsBefore) :
                /\ dbOp.rowsBefore[i].city = dbOp.city
                /\ dbOp.at - dbOp.rowsBefore[i].at < 3600)

\* C24: initialize_db returns True exactly when the file did not exist
\* before the call, so never once it has been called; whenever it is
\* called, the table exists afterwards and the rows are those before.
C24_InitializeIsIdempotent ==
    dbOp.op = "init" =>
        /\ dbOp.ret <=> ~dbOp.fileBefore
        /\ dbOp.tableBefore => ~dbOp.ret
        /\ dbTable
        /\ rows = dbOp.rowsBefore

\* initialize_db called again on a database that holds two rows.
C24_Witness ==
    /\ dbOp.op = "init"
    /\ dbOp.tableBefore
    /\ ~dbOp.ret
    /\ Len(rows) = 2


\* C22: a forecast returned to a session was predicted by models whose
\* last fit was on the county of that session's own call.
C22_PredictsWithOwnFit ==
    \A u \in Sessions :
        (fcRun[u].pc = "done" /\ ~fcRun[u].result.isNone) =>
            fcRun[u].fitCounty = fcRun[u].county


\* C25: every row of a returned forecast has rain >= 0 and a whole-number
\* humidity between 30 and 100 inclusive.
C25_RainAndHumidityInRange ==
    (fcCall.some /\ ~fcCall.out.result.isNone) =>
        \A i \in 1..Len(fcCall.out.result.rows) :
            /\ fcCall.out.result.rows[i].rain >= 0
            /\ fcCall.out.result.rows[i].humidity \in HumidityMin..HumidityMax

\* A returned forecast with a row whose humidity sits on the upper limit.
C25_Witness ==
    /\ fcCall.some
    /\ ~fcCall.out.result.isNone
    /\ \E i \in 1..Len(fcCall.out.result.rows) :
           fcCall.out.result.rows[i].humidity = HumidityMax


\* C26: a load of a file of one county returns rows for 14 distinct
\* counties, as many rows for each county as the file has (one, for its one
\* timestamp).
C26_FourteenCountiesOneRowEach ==
    (csvLoad.some /\ ~csvLoad.regenerated /\ Cardinality(csvCounties) = 1) =>
        /\ Cardinality({csvLoad.county[i] : i \in 1..Len(csvLoad.county)}) = 14
        /\ \A c \in {csvLoad.county[i] : i \in 1..Len(csvLoad.county)} :
               Cardinality({i \in 1..Len(csvLoad.county) : csvLoad.county[i] = c}) = 1


\* The hours each period is said to keep.
C27_HoursOf ==
    [p \in time_periods \ {"All Day"} |->
        CASE p = "Morning (6-10)"    -> 6..9
          [] p = "Midday (10-14)"    -> 10..13
          [] p = "Afternoon (14-18)" -> 14..17
          [] p = "Evening (18-22)"   -> 18..21
          [] p = "Night (22-6)"      -> {22, 23} \cup 0..5]

\* C27: each record's hour is kept by exactly one of the five periods, and
\* under a selected period the filtered data holds exactly the records
\* whose hour is from the period's lower bound up to, not including, its
\* upper bound; Night holds 22, 23 and 0..5.
C27_PeriodsPartitionTheDay ==
    /\ \A h \in tabHours :
         Cardinality({p \in time_periods \ {"All Day"} :
                        h \in FilterByPeriod(tabHours, p)}) = 1
    /\ tabPeriod # "All Day" =>
         tabKept = {h \in tabHours : h \in C27_HoursOf[tabPeriod]}

\* Night is selected with records at 22 and at 5 kept, or Morning with a
\* record at 6 kept and one at 10 dropped.
C27_Witness ==
    \/ tabPeriod = "Night (22-6)" /\ tabHours = {5, 22} /\ tabKept = {5, 22}
    \/ tabPeriod = "Morning (6-10)" /\ tabHours = {6, 10} /\ tabKept = {6}


\* C28: the merged table has exactly one row for each date that has both a
\* bicycle record and a weather reading, none for any other date, and the
\* row's Total_Cyclists is the sum of Count over the bicycle records of its
\* date.
C28_OneRowPerCommonDate ==
    merged_data.some =>
        \A d \in MergeDates :
            LET rowsOf == SelectSeq(merged_data.rows, LAMBDA r : r.Date = d)
                counts == FieldSeq(SelectSeq(bicycle_df, LAMBDA r : r.Date = d),
                                   "Count")
                common == /\ \E i \in 1..Len(bicycle_df) : bicycle_df[i].Date = d
                          /\ \E i \in 1..Len(weather_csv) : weather_csv[i].date = d
            IN  /\ Len(rowsOf) = (IF common THEN 1 ELSE 0)
                /\ common => rowsOf[1].Total_Cyclists = SumSeq(counts)

\* A merge of two bicycle records of date 1 and one of date 2 with two
\* readings of date 1: one row, for date 1.
C28_Witness ==
    /\ merged_data.some
    /\ Len(merged_data.rows) = 1
    /\ Len(bicycle_df) = 3
    /\ Cardinality({i \in 1..Len(bicycle_df) : bicycle_df[i].Date = 1}) = 2
    /\ Len(weather_csv) = 2
    /\ \A i \in 1..Len(weather_csv) : weather_csv[i].date = 1

====
